---- MODULE Spec2Model ----
(***************************************************************************)
(* netctrl: structural controllability of directed networks.               *)
(*                                                                         *)
(* The module models                                                       *)
(*   - DirectedMatching (src/src/lib/util/directed_matching.cpp),          *)
(*   - LiuControllabilityModel (src/src/lib/model/liu.cpp),                *)
(*   - SwitchboardControllabilityModel (src/src/lib/model/switchboard.cpp) *)
(* and the life cycle of a solver object: construction, calculate(),       *)
(* setGraph().  Control paths are heap objects referred to by address, so  *)
(* that delete and the pointers left behind by it are part of the state.   *)
(*                                                                         *)
(* Vertices are 0 .. n-1 as in the code; a C++ vector v is a TLA+ sequence *)
(* whose element v[i] is at position i+1.                                  *)
(***************************************************************************)
EXTENDS Integers, Sequences, FiniteSets, TLC

\* Bounds of the model: vertices and edges of the graph the solver is
\* constructed with, and the number of calculate()/setGraph() calls.
MaxN == 3
MaxM == 2
MaxCalls == 3

\* The null pointer to a control path; the addresses of objects start at 1.
NULL == 0

\* m_pGraph == 0: no graph is attached.
NoGraph == [n |-> -1, edges |-> <<>>]

\* What matchOut() returns as a null pointer: no vector of matched nodes.
NoNodes == <<>>

\* m_pTargets == 0: the problem is untargeted.  A target set is a vector of
\* vertices, so the null pointer is a vector no target set can be.
NoTargets == <<-1>>

\* No solver has been made by clone().
NoClone == [kind |-> "none"]

\* A call that returned nothing (void, or left by an exception).
NoResult == [op |-> "none", value |-> <<>>]

VARIABLES
    kind,            \* "liu" or "sbd": the class of the solver object
    m_pGraph,        \* ControllabilityModel::m_pGraph: a graph or NULL
    extMatching,     \* answer of igraph's maximum_bipartite_matching for m_pGraph
    m_driverNodes,   \* m_driverNodes
    m_matching,      \* LiuControllabilityModel::m_matching
    m_controlPaths,  \* m_controlPaths: a vector of addresses (ControlPath*)
    heap,            \* address -> control path object, live or deleted
    calls,           \* number of calculate()/setGraph() calls made so far
    lastOp,          \* the last call made on the solver and how it ended
    dm,              \* a DirectedMatching driven directly by its own interface
    dmCall,          \* the last call made on dm
    m_pTargets,      \* m_pTargets: the vector of target nodes or NULL
    m_controllabilityMeasure,  \* SwitchboardControllabilityModel only
    returned,        \* what the last call returned to its caller
    clone            \* the solver that clone() made, or NoClone

vars == <<kind, m_pGraph, extMatching, m_driverNodes, m_matching,
          m_controlPaths, heap, calls, lastOp, dm, dmCall,
          m_pTargets, m_controllabilityMeasure, returned, clone>>

solverVars == <<kind, m_pGraph, extMatching, m_driverNodes, m_matching,
                m_controlPaths, heap, calls, lastOp,
                m_pTargets, m_controllabilityMeasure, returned, clone>>

\* What the calls that return nothing leave alone: the settings of the
\* solver and the solver that clone() made.
settingVars == <<m_pTargets, m_controllabilityMeasure, clone>>

(***************************************************************************)
(* Sequences and maps                                                      *)
(***************************************************************************)
Range(s) == {s[i] : i \in DOMAIN s}

\* igraph::Vector::search(0, x, &index): position of the first x, 0 if none.
IndexOf(s, x) ==
    IF \E i \in DOMAIN s : s[i] = x
    THEN CHOOSE i \in DOMAIN s : s[i] = x /\ \A j \in 1..(i-1) : s[j] # x
    ELSE 0

\* igraph::Vector::remove(index)
RemoveAt(s, i) == [j \in 1..(Len(s)-1) |-> IF j < i THEN s[j] ELSE s[j+1]]

EmptyMap == [x \in {} |-> <<>>]

\* std::map::operator[] followed by an assignment
MapPut(f, k, val) == [x \in (DOMAIN f) \cup {k} |-> IF x = k THEN val ELSE f[x]]

SeqsUpTo(S, k) == UNION {[1..j -> S] : j \in 0..k}

\* F(value), with value computed once however often F uses it.
Bind(value, F(_)) == CHOOSE r \in {F(v) : v \in {value}} : TRUE

(***************************************************************************)
(* DirectedMatching                                                        *)
(*   inMapping : vector, inMapping[v] = the node matching v, or -1         *)
(*   outMapping: std::map from a node u to the vector of nodes u matches   *)
(***************************************************************************)

\* DirectedMatching(long int n)
DirectedMatchingN(n) ==
    [inMapping |-> [i \in 1..n |-> -1] \o <<>>, outMapping |-> EmptyMap]

\* DirectedMatching(): no nodes
DirectedMatchingEmpty == DirectedMatchingN(0)

matchIn(m, v) == m.inMapping[v+1]

isMatched(m, v) == matchIn(m, v) # -1

isMatching(m, u) == u \in DOMAIN m.outMapping /\ m.outMapping[u] # <<>>

isMatchingExactlyOne(m, u) ==
    u \in DOMAIN m.outMapping /\ Len(m.outMapping[u]) = 1

\* matchOut(u): the vector of the nodes u matches; NULL for a node that has
\* no entry or an empty one.
matchOut(m, u) == IF isMatching(m, u) THEN m.outMapping[u] ELSE NoNodes

\* m_outMapping[u]: operator[] yields an empty vector for a missing key
OutEntry(m, u) == IF u \in DOMAIN m.outMapping THEN m.outMapping[u] ELSE <<>>

\* unmatch(v) that forgets to erase v from the out-list of its matcher
unmatchKeepOut(m, v) ==
    IF v = -1 \/ m.inMapping[v+1] = -1 THEN m
    ELSE [m EXCEPT !.inMapping[v+1] = -1]

unmatch(m, v) ==
    IF v = -1 THEN m
    ELSE LET u == m.inMapping[v+1] IN
         IF u = -1 THEN m
         ELSE LET lst   == OutEntry(m, u)
                  \* search(0, v, &index); v is in the out-list of u
                  \* whenever in(v) = u (C5_InOutAgree)
                  index == IndexOf(lst, v)
              IN [inMapping  |-> [m.inMapping EXCEPT ![v+1] = -1],
                  outMapping |-> MapPut(m.outMapping, u,
                                    IF index = 0 THEN lst
                                    ELSE RemoveAt(lst, index))]

\* setMatch(u, v) that does not test whether the pair is already there
setMatchNoTest(m, u, v) ==
    IF v = -1 \/ u = -1 THEN m
    ELSE LET m1 == unmatch(m, v) IN
         [inMapping  |-> [m1.inMapping EXCEPT ![v+1] = u],
          outMapping |-> MapPut(m1.outMapping, u, Append(OutEntry(m1, u), v))]

setMatch(m, u, v) ==
    IF v = -1 \/ u = -1 \/ m.inMapping[v+1] = u THEN m
    ELSE LET m1 == unmatch(m, v) IN
         [inMapping  |-> [m1.inMapping EXCEPT ![v+1] = u],
          outMapping |-> MapPut(m1.outMapping, u, Append(OutEntry(m1, u), v))]

RECURSIVE FillOutMapping(_, _, _)
FillOutMapping(mapping, i, out) ==
    IF i > Len(mapping) THEN out
    ELSE IF mapping[i] = -1 THEN FillOutMapping(mapping, i+1, out)
    ELSE FillOutMapping(mapping, i+1,
             MapPut(out, mapping[i],
                    Append(IF mapping[i] \in DOMAIN out THEN out[mapping[i]]
                           ELSE <<>>, i-1)))

\* DirectedMatching(const VectorLong& mapping): mapping[i] is the node that
\* matches i.
DirectedMatchingFrom(mapping) ==
    [inMapping |-> mapping, outMapping |-> FillOutMapping(mapping, 1, EmptyMap)]

\* The pairs (u, v) a matching holds, read from each of its two sides.
InPairs(m) ==
    {<<m.inMapping[i], i-1>> : i \in {j \in DOMAIN m.inMapping : m.inMapping[j] # -1}}

OutPairs(m) ==
    UNION {{<<u, m.outMapping[u][i]>> : i \in DOMAIN m.outMapping[u]} :
           u \in DOMAIN m.outMapping}

\* Number of times v is listed in the out-lists of m.
OutOccurrences(m, v) ==
    Cardinality({<<u, i>> \in UNION {{<<u, i>> : i \in DOMAIN m.outMapping[u]} :
                                      u \in DOMAIN m.outMapping} :
                 m.outMapping[u][i] = v})

DmSize(m) == Len(m.inMapping)

(***************************************************************************)
(* Graphs (igraph::Graph).  A graph is [n, edges]: n vertices 0 .. n-1 and *)
(* the edge list in edge-index order, edge i being edges[i+1] = <<from,    *)
(* to>>.  Self-loops and parallel edges are allowed.  The graphs handed to *)
(* the solvers are directed.                                               *)
(***************************************************************************)
Vertices(g) == 0..(g.n - 1)

vcount(g) == g.n

ecount(g) == Len(g.edges)

GraphsOfSize(maxN, maxM) ==
    UNION {{[n |-> k, edges |-> e] : e \in SeqsUpTo((0..(k-1)) \X (0..(k-1)), maxM)} :
           k \in 0..maxN}

Graphs == GraphsOfSize(MaxN, MaxM)

\* The graphs setGraph() is called with: the null pointer, a directed cycle
\* and a vertex with a self-loop next to its predecessor.
SetGraphArgs ==
    {NoGraph,
     [n |-> 2, edges |-> <<<<0, 1>>, <<1, 0>>>>],
     [n |-> 2, edges |-> <<<<0, 1>>, <<1, 1>>>>]}

\* Graph::degree(&result, V(g), IGRAPH_IN / IGRAPH_OUT, loops = true)
InDegree(g, v) == Cardinality({i \in DOMAIN g.edges : g.edges[i][2] = v})

OutDegree(g, v) == Cardinality({i \in DOMAIN g.edges : g.edges[i][1] = v})

RECURSIVE InNeighborsFrom(_, _, _)
InNeighborsFrom(g, v, u) ==
    IF u >= g.n THEN <<>>
    ELSE [i \in 1..Cardinality({e \in DOMAIN g.edges : g.edges[e] = <<u, v>>}) |-> u]
         \o InNeighborsFrom(g, v, u + 1)

\* Graph::neighbors(v, IGRAPH_IN): the sources of the edges entering v, one
\* entry per edge, in increasing order of vertex index.
InNeighbors(g, v) == InNeighborsFrom(g, v, 0)

(***************************************************************************)
(* LiuControllabilityModel: the matching                                   *)
(***************************************************************************)

\* constructBipartiteGraph(pTargets = 0, pMapping): 2n vertices; the edge
\* u -> v of the graph becomes the undirected edge {u + n, v}; mapping maps
\* both i and i + n back to i.
constructBipartiteGraph(g) ==
    [n       |-> 2 * g.n,
     edges   |-> [i \in DOMAIN g.edges |-> <<g.edges[i][1] + g.n, g.edges[i][2]>>],
     mapping |-> [i \in 1..(2 * g.n) |-> (i - 1) % g.n]]

\* The undirected edges of a bipartite graph, as sets of two end points.
BipartiteEdgeSet(bg) == {{bg.edges[i][1], bg.edges[i][2]} : i \in DOMAIN bg.edges}

\* The matchings of a bipartite graph: sets of edges no two of which share an
\* end point.
BipartiteMatchings(bg) ==
    {S \in SUBSET BipartiteEdgeSet(bg) :
        \A e1 \in S, e2 \in S : e1 # e2 => e1 \cap e2 = {}}

\* A matching as igraph reports it: the partner of each vertex, or -1.
PartnerVector(bg, S) ==
    [i \in 1..bg.n |->
        IF \E e \in S : (i - 1) \in e
        THEN LET e == CHOOSE e \in S : (i - 1) \in e IN
             IF Cardinality(e) = 1 THEN i - 1 ELSE CHOOSE x \in e : x # i - 1
        ELSE -1]

\* maximum_bipartite_matching(graph, types, 0, 0, &matching, 0, 0): any
\* matching of maximum size.  The solver is igraph's; every answer it may
\* give is an element of this set.
maximum_bipartite_matching(bg) ==
    LET all  == BipartiteMatchings(bg)
        best == {S \in all : \A T \in all : Cardinality(T) <= Cardinality(S)}
    IN {PartnerVector(bg, S) : S \in best}

\* calculateUntargetedMatching that records in(u) = v for the matching edge
\* u -> v
calculateUntargetedMatchingSwapped(g, answer) ==
    LET ctrl == constructBipartiteGraph(g)
    IN DirectedMatchingFrom(
          [i \in 1..g.n |-> IF answer[i + g.n] = -1 THEN -1
                            ELSE ctrl.mapping[answer[i + g.n] + 1]])

\* calculateUntargetedMatching(): answer is the vector the external solver
\* returned for constructBipartiteGraph(g).
calculateUntargetedMatching(g, answer) ==
    LET ctrl == constructBipartiteGraph(g)
    IN DirectedMatchingFrom(
          [i \in 1..g.n |-> IF answer[i] = -1 THEN -1
                            ELSE ctrl.mapping[answer[i] + 1]])

\* The answers the external solver can give for the graph a Liu solver is
\* attached to (<<>> where the solver is never asked).
ExternalAnswers(k, g) ==
    IF k = "liu" /\ g # NoGraph
    THEN maximum_bipartite_matching(constructBipartiteGraph(g))
    ELSE {<<>>}

(***************************************************************************)
(* Control paths on the heap.  An address is a position of heap; new       *)
(* appends an object, delete ends its life.  heap keeps what a deleted     *)
(* object held; what a read through a pointer to it yields is not defined  *)
(* (PathsRead).                                                            *)
(***************************************************************************)
Garbage == [live |-> FALSE, type |-> "garbage", nodes |-> <<>>, stem |-> NULL]

\* std::auto_ptr<ControlPath>(NULL): no path was created
NoPath == [live |-> FALSE, type |-> "none", nodes |-> <<>>, stem |-> NULL]

NewPath(type, nodes) == [live |-> TRUE, type |-> type, nodes |-> nodes, stem |-> NULL]

\* delete p, for a live object
Delete(h, a) == [h EXCEPT ![a].live = FALSE]

RECURSIVE DeleteAll(_, _)
DeleteAll(h, ptrs) ==
    IF ptrs = <<>> THEN h
    ELSE DeleteAll(IF Head(ptrs) # NULL /\ h[Head(ptrs)].live
                   THEN Delete(h, Head(ptrs)) ELSE h,
                   Tail(ptrs))

\* clearControlPaths(): deletes every object m_controlPaths points to and
\* leaves the vector itself as it is.
clearControlPaths(h, paths) ==
    [heap |-> DeleteAll(h, paths), paths |-> paths]

\* clearControlPaths() deletes an object that was deleted before
DeletesTwice(h, paths) ==
    \E i \in DOMAIN paths :
        /\ paths[i] # NULL
        /\ \/ ~h[paths[i]].live
           \/ \E j \in 1..(i-1) : paths[j] = paths[i]

(***************************************************************************)
(* LiuControllabilityModel::calculateControlPaths(), untargeted problem    *)
(***************************************************************************)

\* The list of driver nodes taken from the wrong side of the matching: the
\* nodes that match nothing.
RECURSIVE UnmatchedFromOut(_, _, _)
UnmatchedFromOut(m, i, n) ==
    IF i >= n THEN <<>>
    ELSE (IF isMatching(m, i) THEN <<>> ELSE <<i>>) \o UnmatchedFromOut(m, i + 1, n)

\* The list of driver nodes: the nodes that are not matched, in index order.
RECURSIVE UnmatchedFrom(_, _, _)
UnmatchedFrom(m, i, n) ==
    IF i >= n THEN <<>>
    ELSE (IF isMatched(m, i) THEN <<>> ELSE <<i>>) \o UnmatchedFrom(m, i + 1, n)

Last(s) == s[Len(s)]

\* The loop over stemQueue that never follows the matching: every stem is
\* stored as it was queued.
RECURSIVE GrowStemsNoFollow(_, _, _)
GrowStemsNoFollow(m, queue, st) ==
    IF queue = <<>> THEN st
    ELSE LET stem == Head(queue)
             u    == Last(st.heap[stem].nodes)
         IN GrowStemsNoFollow(m, Tail(queue),
                [st EXCEPT !.vts[u] = stem, !.used = @ \cup {u},
                           !.paths = Append(@, stem)])

\* The loop over stemQueue, for the stems grown from one driver node.
\*   st.heap, st.paths: the heap and m_controlPaths
\*   st.vts:  verticesToStems;  st.used: vertexUsed
RECURSIVE GrowStems(_, _, _)
GrowStems(m, queue, st) ==
    IF queue = <<>> THEN st
    ELSE LET stem         == Head(queue)
             u            == Last(st.heap[stem].nodes)
             matchedNodes == matchOut(m, u)
             marked       == [st EXCEPT !.vts[u] = stem, !.used = @ \cup {u}]
         IN IF matchedNodes = NoNodes
            THEN GrowStems(m, Tail(queue),
                           [marked EXCEPT !.paths = Append(@, stem)])
            ELSE LET k      == Len(matchedNodes)
                     clones == [i \in 1..(k-1) |->
                                   NewPath("stem", Append(st.heap[stem].nodes,
                                                          matchedNodes[i+1]))]
                     h1     == st.heap \o clones
                     h2     == [h1 EXCEPT ![stem].nodes = Append(@, matchedNodes[1])]
                 IN GrowStems(m,
                        Tail(queue) \o [i \in 1..(k-1) |-> Len(st.heap) + i]
                                    \o <<stem>>,
                        [marked EXCEPT !.heap = h2])

RECURSIVE StemsFrom(_, _, _, _)
StemsFrom(m, drivers, i, st) ==
    IF i > Len(drivers) THEN st
    ELSE LET h1 == Append(st.heap, NewPath("stem", <<drivers[i]>>))
         IN StemsFrom(m, drivers, i + 1,
                      GrowStems(m, <<Len(h1)>>, [st EXCEPT !.heap = h1]))

\* while (!vertexUsed[v]) { bud->appendNode(v); ... v = matchIn(v); }
\* The result is [nodes, used, dropped]; dropped: the walk ran into a node
\* that is not matched and the bud was deleted.
RECURSIVE BudWalk(_, _, _, _)
BudWalk(m, v, nodes, used) ==
    IF v \in used THEN [nodes |-> nodes, used |-> used, dropped |-> FALSE]
    ELSE LET w == matchIn(m, v) IN
         IF w = -1
         THEN [nodes |-> Append(nodes, v), used |-> used \cup {v}, dropped |-> TRUE]
         ELSE BudWalk(m, w, Append(nodes, v), used \cup {v})

\* The stem a bud is attached to: for the nodes of the bud in order, the
\* first in-neighbour that belongs to a stem.
RECURSIVE StemOfNeighbors(_, _, _)
StemOfNeighbors(neis, i, vts) ==
    IF i > Len(neis) THEN NULL
    ELSE IF vts[neis[i]] # NULL THEN vts[neis[i]]
    ELSE StemOfNeighbors(neis, i + 1, vts)

RECURSIVE AttachBud(_, _, _, _)
AttachBud(g, nodes, i, vts) ==
    IF i > Len(nodes) THEN NULL
    ELSE LET s == StemOfNeighbors(InNeighbors(g, nodes[i]), 1, vts) IN
         IF s # NULL THEN s ELSE AttachBud(g, nodes, i + 1, vts)

RECURSIVE BudsFrom(_, _, _, _)
BudsFrom(g, m, u, st) ==
    IF u >= g.n THEN st
    ELSE IF u \in st.used \/ ~isMatched(m, u) THEN BudsFrom(g, m, u + 1, st)
    ELSE LET walk  == BudWalk(m, u, <<>>, st.used)
             nodes == IF Len(walk.nodes) > 1 /\ Head(walk.nodes) = Last(walk.nodes)
                      THEN SubSeq(walk.nodes, 1, Len(walk.nodes) - 1)
                      ELSE walk.nodes
             bud   == [NewPath("bud", nodes) EXCEPT
                          !.stem = AttachBud(g, nodes, 1, st.vts)]
         IN IF walk.dropped
            THEN BudsFrom(g, m, u + 1,
                     [st EXCEPT !.heap = Append(@, [bud EXCEPT !.live = FALSE]),
                                !.used = walk.used])
            ELSE BudsFrom(g, m, u + 1,
                     [st EXCEPT !.heap  = Append(@, bud),
                                !.paths = Append(@, Len(st.heap) + 1),
                                !.used  = walk.used])

\* calculateControlPaths() that never adds the driver node 0 to an empty
\* list of driver nodes
calculateControlPathsNoFallback(g, m, h, paths) ==
    LET drivers == UnmatchedFrom(m, 0, g.n)
        cleared == clearControlPaths(h, paths)
        st0     == [heap |-> cleared.heap, paths |-> cleared.paths,
                    vts |-> [v \in Vertices(g) |-> NULL], used |-> {}]
        st2     == BudsFrom(g, m, 0, StemsFrom(m, drivers, 1, st0))
    IN [drivers |-> drivers, heap |-> st2.heap, paths |-> st2.paths]

\* calculateControlPaths(): the driver nodes, the stems grown from them, the
\* buds formed by the remaining matched nodes, and node 0 as the driver node
\* when there is none.
calculateControlPaths(g, m, h, paths) ==
    LET drivers == UnmatchedFrom(m, 0, g.n)
        cleared == clearControlPaths(h, paths)
        st0     == [heap |-> cleared.heap, paths |-> cleared.paths,
                    vts |-> [v \in Vertices(g) |-> NULL], used |-> {}]
        st1     == StemsFrom(m, drivers, 1, st0)
        st2     == BudsFrom(g, m, 0, st1)
    IN [drivers |-> IF drivers = <<>> THEN <<0>> ELSE drivers,
        heap    |-> st2.heap,
        paths   |-> st2.paths]


(***************************************************************************)
(* SwitchboardControllabilityModel::calculate()                            *)
(***************************************************************************)

\* IS_BALANCED(i) without the test outDegrees[i] > 0
IS_BALANCEDNoEdge(g, i) == OutDegree(g, i) = InDegree(g, i)

\* IS_BALANCED(i)
IS_BALANCED(g, i) == OutDegree(g, i) = InDegree(g, i) /\ OutDegree(g, i) > 0

RECURSIVE DivergentFrom(_, _)
DivergentFrom(g, i) ==
    IF i >= g.n THEN <<>>
    ELSE (IF OutDegree(g, i) > InDegree(g, i) THEN <<i>> ELSE <<>>)
         \o DivergentFrom(g, i + 1)

\* clusters(graph, &membership, 0, &cluster_count, IGRAPH_WEAK): the weakly
\* connected component of v, as a set of vertices.
RECURSIVE WeakClosure(_, _)
WeakClosure(g, S) ==
    LET T == S \cup {g.edges[i][1] : i \in {j \in DOMAIN g.edges : g.edges[j][2] \in S}}
               \cup {g.edges[i][2] : i \in {j \in DOMAIN g.edges : g.edges[j][1] \in S}}
    IN IF T = S THEN S ELSE WeakClosure(g, T)

WeakComponent(g, v) == WeakClosure(g, {v})

Min(S) == CHOOSE x \in S : \A y \in S : x <= y

\* membership[v]: components are numbered in the order of their lowest vertex.
Membership(g, v) ==
    Cardinality({w \in Vertices(g) : w = Min(WeakComponent(g, w))
                                      /\ w < Min(WeakComponent(g, v))})

\* balancedCluster[j] after the first loop: no vertex of cluster j fails
\* IS_BALANCED.
BalancedCluster(g, j) ==
    \A i \in Vertices(g) : Membership(g, i) = j => IS_BALANCED(g, i)

\* The second loop without the reset of balancedCluster[j]: every vertex of
\* a balanced cluster.
RECURSIVE BalancedDriversFromNoReset(_, _, _)
BalancedDriversFromNoReset(g, i, done) ==
    IF i >= g.n THEN <<>>
    ELSE IF BalancedCluster(g, Membership(g, i))
         THEN <<i>> \o BalancedDriversFromNoReset(g, i + 1, done)
         ELSE BalancedDriversFromNoReset(g, i + 1, done)

\* The second loop: the first vertex of every balanced cluster.
RECURSIVE BalancedDriversFrom(_, _, _)
BalancedDriversFrom(g, i, done) ==
    IF i >= g.n THEN <<>>
    ELSE LET j == Membership(g, i) IN
         IF BalancedCluster(g, j) /\ j \notin done
         THEN <<i>> \o BalancedDriversFrom(g, i + 1, done \cup {j})
         ELSE BalancedDriversFrom(g, i + 1, done)

\* Lines 31-66: the driver nodes.
SbdDriverNodes(g) ==
    DivergentFrom(g, 0)
    \o (IF \E i \in Vertices(g) : OutDegree(g, i) <= InDegree(g, i) /\ IS_BALANCED(g, i)
        THEN BalancedDriversFrom(g, 0, {})
        ELSE <<>>)

\* Graph::incident(&incs, v, IGRAPH_OUT) followed by the search for an edge
\* that is not used: the unused edge leaving v with the lowest index, 0 if
\* there is none.
FirstUnusedOutEdge(g, v, edgeUsed) ==
    LET cand == {e \in DOMAIN g.edges : g.edges[e][1] = v /\ e \notin edgeUsed}
    IN IF cand = {} THEN 0 ELSE Min(cand)

\* The while loop of createControlPathFromNode without inDegrees[v]--.
RECURSIVE FollowEdgesKeepIn(_, _)
FollowEdgesKeepIn(g, w) ==
    LET e == FirstUnusedOutEdge(g, w.v, w.edgeUsed) IN
    IF e = 0 THEN w
    ELSE FollowEdgesKeepIn(g, [v          |-> g.edges[e][2],
                               walk       |-> Append(w.walk, w.v),
                               edgeUsed   |-> w.edgeUsed \cup {e},
                               outDegrees |-> [w.outDegrees EXCEPT ![w.v] = @ - 1],
                               inDegrees  |-> w.inDegrees])

\* The while loop of createControlPathFromNode.  w is the walking state
\* [v, walk, edgeUsed, outDegrees, inDegrees].
RECURSIVE FollowEdges(_, _)
FollowEdges(g, w) ==
    LET e == FirstUnusedOutEdge(g, w.v, w.edgeUsed) IN
    IF e = 0 THEN w
    ELSE LET to == g.edges[e][2] IN
         FollowEdges(g, [v          |-> to,
                         walk       |-> Append(w.walk, w.v),
                         edgeUsed   |-> w.edgeUsed \cup {e},
                         outDegrees |-> [w.outDegrees EXCEPT ![w.v] = @ - 1],
                         inDegrees  |-> [w.inDegrees EXCEPT ![to] = @ - 1]])

\* createControlPathFromNode(start, edgeUsed, outDegrees, inDegrees): the
\* path that was created (NoPath if no edge could be followed) and the updated
\* edgeUsed, outDegrees and inDegrees.
createControlPathFromNode(g, start, edgeUsed, outDegrees, inDegrees) ==
    LET w == FollowEdges(g, [v |-> start, walk |-> <<>>, edgeUsed |-> edgeUsed,
                             outDegrees |-> outDegrees, inDegrees |-> inDegrees])
    IN [path       |-> IF w.v # start THEN NewPath("open walk", Append(w.walk, w.v))
                       ELSE IF Len(w.walk) = 0 THEN NoPath
                       ELSE NewPath("closed walk", w.walk),
        edgeUsed   |-> w.edgeUsed,
        outDegrees |-> w.outDegrees,
        inDegrees  |-> w.inDegrees]

\* m_controlPaths.push_back(path.release()), st being [heap, paths, edgeUsed,
\* outDegrees, inDegrees, calls].  A null path is pushed as the null pointer.
\* calls is the record of the calls of createControlPathFromNode so far:
\* the loop that called, the start node, the path that came back, and
\* edgeUsed, outDegrees and inDegrees before and after the call.
PushWalk(st, loop, start, r) ==
    [heap       |-> IF r.path = NoPath THEN st.heap ELSE Append(st.heap, r.path),
     paths      |-> Append(st.paths, IF r.path = NoPath THEN NULL ELSE Len(st.heap) + 1),
     edgeUsed   |-> r.edgeUsed,
     outDegrees |-> r.outDegrees,
     inDegrees  |-> r.inDegrees,
     calls      |-> Append(st.calls,
                       [loop   |-> loop, start |-> start, path |-> r.path,
                        before |-> [edgeUsed   |-> st.edgeUsed,
                                    outDegrees |-> st.outDegrees,
                                    inDegrees  |-> st.inDegrees],
                        after  |-> [edgeUsed   |-> r.edgeUsed,
                                    outDegrees |-> r.outDegrees,
                                    inDegrees  |-> r.inDegrees]])]

\* The loop over the driver nodes that goes on while the node has an edge
\* left, whatever its in-degree.
RECURSIVE WalksFromDriversWhileOut(_, _, _, _)
WalksFromDriversWhileOut(g, drivers, i, st) ==
    IF i > Len(drivers) THEN st
    ELSE IF st.outDegrees[drivers[i]] > 0
    THEN WalksFromDriversWhileOut(g, drivers, i,
             PushWalk(st, "divergent", drivers[i],
                      createControlPathFromNode(g, drivers[i], st.edgeUsed,
                                                st.outDegrees, st.inDegrees)))
    ELSE WalksFromDriversWhileOut(g, drivers, i + 1, st)

\* while (outDegrees[d] > inDegrees[d]) for the driver nodes in order
RECURSIVE WalksFromDrivers(_, _, _, _)
WalksFromDrivers(g, drivers, i, st) ==
    IF i > Len(drivers) THEN st
    ELSE IF st.outDegrees[drivers[i]] > st.inDegrees[drivers[i]]
    THEN WalksFromDrivers(g, drivers, i,
             PushWalk(st, "divergent", drivers[i],
                      createControlPathFromNode(g, drivers[i], st.edgeUsed,
                                                st.outDegrees, st.inDegrees)))
    ELSE WalksFromDrivers(g, drivers, i + 1, st)

\* while (outDegrees[i] > 0) for the nodes in index order
RECURSIVE WalksFromNodes(_, _, _)
WalksFromNodes(g, i, st) ==
    IF i >= g.n THEN st
    ELSE IF st.outDegrees[i] > 0
    THEN WalksFromNodes(g, i,
             PushWalk(st, "balanced", i,
                      createControlPathFromNode(g, i, st.edgeUsed,
                                                st.outDegrees, st.inDegrees)))
    ELSE WalksFromNodes(g, i + 1, st)

\* The state calculate() starts its two loops from: the control paths
\* cleared, no edge used, the degrees of the graph.
WalkStart(g, h, paths) ==
    LET cleared == clearControlPaths(h, paths)
    IN [heap       |-> cleared.heap,
        paths      |-> cleared.paths,
        edgeUsed   |-> {},
        outDegrees |-> [v \in Vertices(g) |-> OutDegree(g, v)],
        inDegrees  |-> [v \in Vertices(g) |-> InDegree(g, v)],
        calls      |-> <<>>]

\* calculate() of the switchboard model on the graph g.  afterDrivers is
\* the state between the two loops.
SbdCalculate(g, h, paths) ==
    LET drivers == SbdDriverNodes(g)
        st1     == WalksFromDrivers(g, drivers, 1, WalkStart(g, h, paths))
        st2     == WalksFromNodes(g, 0, st1)
    IN [drivers |-> drivers, heap |-> st2.heap, paths |-> st2.paths,
        edgeUsed |-> st2.edgeUsed, calls |-> st2.calls,
        afterDrivers |-> [edgeUsed   |-> st1.edgeUsed,
                          outDegrees |-> st1.outDegrees,
                          inDegrees  |-> st1.inDegrees]]

(***************************************************************************)
(* LiuControllabilityModel::edgeClasses()                                  *)
(***************************************************************************)

\* constructDirectedBipartiteGraphFromMatching(matching), directed graph:
\* edge i keeps its index; u -> v becomes v -> u + n when in(v) = u and
\* u + n -> v otherwise.
constructDirectedBipartiteGraphFromMatching(g, m) ==
    [n     |-> 2 * g.n,
     edges |-> [i \in DOMAIN g.edges |->
                   LET u == g.edges[i][1]
                       v == g.edges[i][2]
                   IN IF matchIn(m, v) = u THEN <<v, u + g.n>>
                      ELSE <<u + g.n, v>>]]

\* The vertices both searches start from: from when nothing matches it,
\* from + n when it matches nothing.
UnmatchedSeeds(g, m) ==
    {from \in Vertices(g) : ~isMatched(m, from)}
    \cup {from + g.n : from \in {f \in Vertices(g) : ~isMatching(m, f)}}

\* (3a) the vertices the backward breadth-first search sees
RECURSIVE BackwardSeen(_, _)
BackwardSeen(bg, seen) ==
    LET more == {bg.edges[i][1] :
                   i \in {j \in DOMAIN bg.edges : bg.edges[j][2] \in seen}}
    IN IF more \subseteq seen THEN seen ELSE BackwardSeen(bg, seen \cup more)

\* (3b) the vertices the forward breadth-first search sees
RECURSIVE ForwardSeen(_, _)
ForwardSeen(bg, seen) ==
    LET more == {bg.edges[i][2] :
                   i \in {j \in DOMAIN bg.edges : bg.edges[j][1] \in seen}}
    IN IF more \subseteq seen THEN seen ELSE ForwardSeen(bg, seen \cup more)

\* Step (4) left out: no two vertices are taken to be in one component.
SameStrongClusterNever(bg, a, b) == FALSE

\* clusters(bipartiteGraph, &membership, 0, 0, IGRAPH_STRONG):
\* membership[a] == membership[b]
SameStrongCluster(bg, a, b) ==
    b \in ForwardSeen(bg, {a}) /\ a \in ForwardSeen(bg, {b})

\* Steps (1) to (4): every edge that enters a vertex seen by the backward
\* search, leaves a vertex seen by the forward search or lies inside a
\* strongly connected component is ORDINARY, the others stay REDUNDANT.
OrdinaryEdges(g, m) ==
    LET bg    == constructDirectedBipartiteGraphFromMatching(g, m)
        seeds == UnmatchedSeeds(g, m)
        back  == BackwardSeen(bg, seeds)
        forw  == ForwardSeen(bg, seeds)
    IN [i \in DOMAIN g.edges |->
           IF \/ bg.edges[i][2] \in back
              \/ bg.edges[i][1] \in forw
              \/ SameStrongCluster(bg, bg.edges[i][1], bg.edges[i][2])
           THEN "ORDINARY" ELSE "REDUNDANT"]

\* Graph::getEid(from, to): the index of an edge from -> to (1-based here).
\* Where several edges join the two vertices the library returns one of
\* them; every one it may return is an element of this set.
getEid(g, from, to) == {i \in DOMAIN g.edges : g.edges[i] = <<from, to>>}

\* Step (5): for every matched vertex to, the edge getEid(in(to), to) turns
\* CRITICAL if it is still REDUNDANT.  One result per way the library may
\* answer getEid.
PromoteMatched(g, m, result) ==
    LET matched == {to \in Vertices(g) : matchIn(m, to) >= 0}
        answers == {f \in [matched -> DOMAIN g.edges] :
                      \A to \in matched : f[to] \in getEid(g, matchIn(m, to), to)}
    IN {[i \in DOMAIN g.edges |->
            IF result[i] = "REDUNDANT" /\ \E to \in matched : f[to] = i
            THEN "CRITICAL" ELSE result[i]] : f \in answers}

\* The vectors edgeClasses() may return for graph g and the matching m a
\* calculate() on g stored.
LiuEdgeClassVectors(g, m) == PromoteMatched(g, m, OrdinaryEdges(g, m))

\* m is a matching calculate() could have stored for g: it has an entry for
\* every vertex of g and every pair it holds is an edge of g.
MatchingFits(g, m) ==
    /\ DmSize(m) = g.n
    /\ \A to \in Vertices(g) :
          matchIn(m, to) >= 0 => getEid(g, matchIn(m, to), to) # {}

(***************************************************************************)
(* SwitchboardControllabilityModel: edge classes and controllability       *)
(***************************************************************************)

\* degreeDiffs: in-degree minus out-degree
DegreeDiffs(g) == [v \in Vertices(g) |-> InDegree(g, v) - OutDegree(g, v)]

\* Graph::neighbors(v, IGRAPH_ALL) as a set
NeighborSet(g, v) ==
    {g.edges[i][2] : i \in {j \in DOMAIN g.edges : g.edges[j][1] = v}}
    \cup {g.edges[i][1] : i \in {j \in DOMAIN g.edges : g.edges[j][2] = v}}

\* neis.size(): one entry per edge end at v, a self-loop gives two
NeighborCount(g, v) == OutDegree(g, v) + InDegree(g, v)

\* The vertices the queue of isInBalancedComponentExcept holds at some time:
\* reached from v through vertices other than u whose degreeDiffs is 0.
RECURSIVE Queued(_, _, _, _)
Queued(g, S, u, degreeDiffs) ==
    LET more == {y \in UNION {NeighborSet(g, x) : x \in S} :
                    y # u /\ degreeDiffs[y] = 0}
    IN IF more \subseteq S THEN S ELSE Queued(g, S \cup more, u, degreeDiffs)

\* isInBalancedComponentExcept(v, u, degreeDiffs); u = -1 excepts nothing
isInBalancedComponentExcept(g, v, u, degreeDiffs) ==
    IF degreeDiffs[v] # 0 THEN FALSE
    ELSE IF \/ NeighborCount(g, v) = 0
            \/ (NeighborCount(g, v) = 1 /\ NeighborSet(g, v) = {u})
    THEN FALSE
    ELSE LET q == Queued(g, {v}, u, degreeDiffs) IN
         ~ \E x \in q : \E y \in NeighborSet(g, x) :
               y \notin q /\ y # u /\ degreeDiffs[y] # 0

isInBalancedComponent(g, v, degreeDiffs) ==
    isInBalancedComponentExcept(g, v, -1, degreeDiffs)

\* The body of the loop of changesInDriverNodesAfterEdgeRemoval() for the
\* edge with index i (i + 1 here).
ChangeForEdge(g, i) ==
    LET d  == DegreeDiffs(g)
        u  == g.edges[i][1]
        v  == g.edges[i][2]
        \* degreeDiffs[v]--; degreeDiffs[u]++
        d1 == [d EXCEPT ![v] = @ - 1]
        d2 == [d1 EXCEPT ![u] = @ + 1]
    IN (IF d[u] = -1 THEN -1 ELSE 0)
       + (IF d[v] = 0 THEN 1 ELSE 0)
       + (IF d[u] = 0 /\ d[v] = 0 /\ isInBalancedComponent(g, u, d)
          THEN -1 ELSE 0)
       + (IF d[v] = 1 /\ isInBalancedComponentExcept(g, v, u, d2)
          THEN 1 ELSE 0)
       + (IF d[u] = -1 /\ isInBalancedComponentExcept(g, u, v, d2)
          THEN 1 ELSE 0)

changesInDriverNodesAfterEdgeRemoval(g) ==
    [i \in DOMAIN g.edges |-> ChangeForEdge(g, i)]

\* edgeClasses() that reports an unchanged driver count as ORDINARY
SbdEdgeClassVectorOrdinary(g) ==
    LET diffs == changesInDriverNodesAfterEdgeRemoval(g) IN
    [i \in DOMAIN diffs |->
        IF diffs[i] < 0 THEN "DISTINGUISHED"
        ELSE IF diffs[i] = 0 THEN "ORDINARY"
        ELSE "CRITICAL"]

\* SwitchboardControllabilityModel::edgeClasses()
SbdEdgeClassVector(g) ==
    LET diffs == changesInDriverNodesAfterEdgeRemoval(g) IN
    [i \in DOMAIN diffs |->
        IF diffs[i] < 0 THEN "DISTINGUISHED"
        ELSE IF diffs[i] = 0 THEN "REDUNDANT"
        ELSE "CRITICAL"]

\* OpenWalk::needsInputSignal() is true, ClosedWalk::needsInputSignal() false
needsInputSignal(path) == path.type \in {"open walk", "stem"}

\* controllability(): the quotient numerator / denominator of the float
\* division, as the pair of the two.
SbdControllability(g, measure, drivers, h, paths) ==
    IF measure = "NODE_MEASURE" THEN <<Len(drivers), vcount(g)>>
    ELSE <<Cardinality({i \in DOMAIN paths : needsInputSignal(h[paths[i]])}),
           ecount(g)>>

(***************************************************************************)
(* The solver object: construction, calculate(), setGraph()                *)
(***************************************************************************)
Op(op, result) == [op |-> op, result |-> result]

\* The process is running and may make another call.
CanCall == lastOp.result # "crash" /\ calls < MaxCalls

\* LiuControllabilityModel(pGraph) / SwitchboardControllabilityModel(pGraph)
Init ==
    /\ kind \in {"liu", "sbd"}
    /\ m_pGraph \in Graphs \cup {NoGraph}
    /\ extMatching \in ExternalAnswers(kind, m_pGraph)
    /\ m_driverNodes = <<>>
    /\ m_matching = DirectedMatchingEmpty
    /\ m_controlPaths = <<>>
    /\ heap = <<>>
    /\ calls = 0
    /\ lastOp = Op("new", "ok")
    /\ dm = DirectedMatchingEmpty
    /\ dmCall = <<"new", 0, 0>>
    /\ m_pTargets = NoTargets
    /\ m_controllabilityMeasure = "NODE_MEASURE"
    /\ returned = NoResult
    /\ clone = NoClone

\* LiuControllabilityModel::calculate() without a graph: the exception is
\* thrown before anything is touched.
LiuCalculateNoGraph ==
    /\ kind = "liu" /\ CanCall /\ m_pGraph = NoGraph
    /\ calls' = calls + 1
    /\ lastOp' = Op("calculate", "invalid_graph")
    /\ returned' = NoResult
    /\ UNCHANGED <<kind, m_pGraph, extMatching, m_driverNodes, m_matching,
                   m_controlPaths, heap, dm, dmCall>>
    /\ UNCHANGED settingVars

\* LiuControllabilityModel::calculate() on a graph, untargeted problem.
\* Deleting a control path a second time is undefined: the process dies in
\* clearControlPaths() or runs on.
LiuCalculate ==
    /\ kind = "liu" /\ CanCall /\ m_pGraph # NoGraph /\ m_pTargets = NoTargets
    /\ calls' = calls + 1
    /\ returned' = NoResult
    /\ LET m == calculateUntargetedMatching(m_pGraph, extMatching) IN
          LET r == calculateControlPaths(m_pGraph, m, heap, m_controlPaths) IN
          /\ m_matching' = m
          /\ \/ /\ m_driverNodes' = r.drivers
                /\ m_controlPaths' = r.paths
                /\ heap' = r.heap
                /\ lastOp' = Op("calculate", "ok")
             \/ /\ DeletesTwice(heap, m_controlPaths)
                /\ m_driverNodes' = UnmatchedFrom(m, 0, m_pGraph.n)
                /\ lastOp' = Op("calculate", "crash")
                /\ UNCHANGED <<m_controlPaths, heap>>
    /\ UNCHANGED <<kind, m_pGraph, extMatching, dm, dmCall>>
    /\ UNCHANGED settingVars

\* SwitchboardControllabilityModel::calculate() on a graph.  With a target
\* set the call ends with not_supported_error before anything is touched.
SbdCalculateOnGraph ==
    /\ kind = "sbd" /\ CanCall /\ m_pGraph # NoGraph
    /\ calls' = calls + 1
    /\ returned' = NoResult
    /\ IF m_pTargets # NoTargets
       THEN /\ lastOp' = Op("calculate", "unsupported")
            /\ UNCHANGED <<m_driverNodes, m_controlPaths, heap>>
       ELSE LET r == SbdCalculate(m_pGraph, heap, m_controlPaths) IN
            /\ m_driverNodes' = r.drivers
            /\ \/ /\ m_controlPaths' = r.paths
                  /\ heap' = r.heap
                  /\ lastOp' = Op("calculate", "ok")
               \/ /\ DeletesTwice(heap, m_controlPaths)
                  /\ lastOp' = Op("calculate", "crash")
                  /\ UNCHANGED <<m_controlPaths, heap>>
    /\ UNCHANGED <<kind, m_pGraph, extMatching, m_matching, dm, dmCall>>
    /\ UNCHANGED settingVars

\* SwitchboardControllabilityModel::calculate() without a graph: m_pGraph is
\* dereferenced (m_pGraph->vcount()) with no test, before the test of the
\* target set.  The behaviour is undefined: the process dies, or runs on with
\* whatever it reads as a graph.
SbdCalculateNoGraph ==
    /\ kind = "sbd" /\ CanCall /\ m_pGraph = NoGraph
    /\ calls' = calls + 1
    /\ returned' = NoResult
    /\ \/ /\ lastOp' = Op("calculate", "crash")
          /\ UNCHANGED <<m_driverNodes, m_controlPaths, heap>>
       \/ IF m_pTargets # NoTargets
          THEN /\ lastOp' = Op("calculate", "unsupported")
               /\ UNCHANGED <<m_driverNodes, m_controlPaths, heap>>
          ELSE \E g \in SetGraphArgs \ {NoGraph} :
                  LET r == SbdCalculate(g, heap, m_controlPaths) IN
                  /\ m_driverNodes' = r.drivers
                  /\ m_controlPaths' = r.paths
                  /\ heap' = r.heap
                  /\ lastOp' = Op("calculate", "ok")
    /\ UNCHANGED <<kind, m_pGraph, extMatching, m_matching, dm, dmCall>>
    /\ UNCHANGED settingVars

\* setGraph(graph), the same for both classes: ControllabilityModel::setGraph,
\* m_driverNodes.clear(), clearControlPaths().
SetGraph ==
    /\ CanCall
    /\ calls' = calls + 1
    /\ returned' = NoResult
    /\ \E graph \in SetGraphArgs :
          LET cleared == clearControlPaths(heap, m_controlPaths) IN
          /\ m_pGraph' = graph
          /\ extMatching' \in ExternalAnswers(kind, graph)
          /\ m_driverNodes' = <<>>
          /\ \/ /\ m_controlPaths' = cleared.paths
                /\ heap' = cleared.heap
                /\ lastOp' = Op("setGraph", "ok")
             \/ /\ DeletesTwice(heap, m_controlPaths)
                /\ lastOp' = Op("setGraph", "crash")
                /\ UNCHANGED <<m_controlPaths, heap>>
    /\ UNCHANGED <<kind, m_matching, dm, dmCall>>
    /\ UNCHANGED settingVars

Next ==
    \/ LiuCalculateNoGraph
    \/ LiuCalculate
    \/ SbdCalculateOnGraph
    \/ SbdCalculateNoGraph
    \/ SetGraph

Spec == Init /\ [][Next]_vars

(***************************************************************************)
(* A DirectedMatching on its own: DirectedMatching(n), then any sequence   *)
(* of setMatch(u, v) and unmatch(v) with 0 <= u, v < n.                    *)
(***************************************************************************)
InitDM ==
    /\ kind = "liu"
    /\ m_pGraph = NoGraph
    /\ extMatching = <<>>
    /\ m_driverNodes = <<>>
    /\ m_matching = DirectedMatchingEmpty
    /\ m_controlPaths = <<>>
    /\ heap = <<>>
    /\ calls = 0
    /\ lastOp = Op("new", "ok")
    /\ \E n \in 1..MaxN : dm = DirectedMatchingN(n)
    /\ dmCall = <<"new", 0, 0>>
    /\ m_pTargets = NoTargets
    /\ m_controllabilityMeasure = "NODE_MEASURE"
    /\ returned = NoResult
    /\ clone = NoClone

DmSetMatch ==
    /\ \E u \in 0..(DmSize(dm) - 1), v \in 0..(DmSize(dm) - 1) :
          /\ dm' = setMatch(dm, u, v)
          /\ dmCall' = <<"setMatch", u, v>>
    /\ UNCHANGED solverVars

DmUnmatch ==
    /\ \E v \in 0..(DmSize(dm) - 1) :
          /\ dm' = unmatch(dm, v)
          /\ dmCall' = <<"unmatch", v, v>>
    /\ UNCHANGED solverVars

NextDM == DmSetMatch \/ DmUnmatch

SpecDM == InitDM /\ [][NextDM]_vars

(***************************************************************************)
(* What a caller sees                                                      *)
(***************************************************************************)

\* controlPaths() read entry by entry: the objects the pointers of the list
\* lead to.  A pointer to a deleted object yields what the object held
\* (stale) or something else (~stale).
PathsRead(h, paths, stale) ==
    [i \in DOMAIN paths |->
        IF paths[i] = NULL THEN NoPath
        ELSE IF h[paths[i]].live \/ stale THEN h[paths[i]]
        ELSE Garbage]

\* A list of control paths with the order of the paths set aside: how many
\* times each path (its kind and its vertex list) is in the list.
PathBag(ps) ==
    LET key(i) == <<ps[i].type, ps[i].nodes>> IN
    [k \in {key(i) : i \in DOMAIN ps} |->
        Cardinality({i \in DOMAIN ps : key(i) = k})]

\* The matched pairs (u, v) a DirectedMatching stores, on either side.
MatchedPairs(m) == InPairs(m) \cup OutPairs(m)

\* Number of matched edges entering v.
IncomingMatched(m, v) == Cardinality({p \in MatchedPairs(m) : p[2] = v})

\* A Liu calculate() has just returned.
AfterLiuCalculate == kind = "liu" /\ lastOp = Op("calculate", "ok")

\* Every vertex of the attached graph is matched.
AllMatched == \A v \in Vertices(m_pGraph) : isMatched(m_matching, v)

\* Every pointer of m_controlPaths leads to a live object.
AllPathsLive ==
    \A i \in DOMAIN m_controlPaths :
        m_controlPaths[i] # NULL /\ heap[m_controlPaths[i]].live

(***************************************************************************)
(* The solver object with a target set, and the calls that return a value  *)
(***************************************************************************)

\* The target sets a solver is constructed with, besides none.
TargetArgs == {<<>>, <<0>>}

LiuClasses == {"REDUNDANT", "ORDINARY", "CRITICAL"}

SbdClasses == {"REDUNDANT", "CRITICAL", "DISTINGUISHED"}

\* What a call that read through a null or stale pointer may hand back: a
\* vector over S of some length.
GarbageVectors(S) == SeqsUpTo(S, 1)

Returned(op, value) == [op |-> op, value |-> value]

\* What a call that returns a value leaves alone: everything but lastOp and
\* returned.
queryUnchanged == <<kind, m_pGraph, extMatching, m_driverNodes, m_matching,
                    m_controlPaths, heap, calls, dm, dmCall, m_pTargets,
                    m_controllabilityMeasure, clone>>

\* The process is running.
Running == lastOp.result # "crash"

\* LiuControllabilityModel(pGraph, pTargets) /
\* SwitchboardControllabilityModel(pGraph, pTargets) with a target set
InitT ==
    /\ kind \in {"liu", "sbd"}
    /\ m_pGraph \in SetGraphArgs
    /\ extMatching \in ExternalAnswers(kind, m_pGraph)
    /\ m_driverNodes = <<>>
    /\ m_matching = DirectedMatchingEmpty
    /\ m_controlPaths = <<>>
    /\ heap = <<>>
    /\ calls = 0
    /\ lastOp = Op("new", "ok")
    /\ dm = DirectedMatchingEmpty
    /\ dmCall = <<"new", 0, 0>>
    /\ m_pTargets \in TargetArgs
    /\ m_controllabilityMeasure = "NODE_MEASURE"
    /\ returned = NoResult
    /\ clone = NoClone

\* LiuControllabilityModel::edgeClasses().  The test of the target set comes
\* first.  After it the graph and the matching are read with no test: with
\* no graph, or with a matching that was not computed for the graph, the
\* call reads outside its vectors.
LiuEdgeClasses ==
    /\ kind = "liu" /\ Running
    /\ IF m_pTargets # NoTargets
       THEN /\ lastOp' = Op("edgeClasses", "unsupported")
            /\ returned' = NoResult
       ELSE IF m_pGraph # NoGraph /\ MatchingFits(m_pGraph, m_matching)
       THEN /\ lastOp' = Op("edgeClasses", "ok")
            /\ \E r \in LiuEdgeClassVectors(m_pGraph, m_matching) :
                  returned' = Returned("edgeClasses", r)
       ELSE \/ /\ lastOp' = Op("edgeClasses", "crash")
               /\ returned' = NoResult
            \/ /\ lastOp' = Op("edgeClasses", "igraph_error")
               /\ returned' = NoResult
            \/ /\ lastOp' = Op("edgeClasses", "ok")
               /\ \E r \in GarbageVectors(LiuClasses) :
                     returned' = Returned("edgeClasses", r)
    /\ UNCHANGED queryUnchanged

\* SwitchboardControllabilityModel::changesInDriverNodesAfterEdgeRemoval():
\* checkParameters(), then the graph is read with no test.
ChangesInDriverNodesAfterEdgeRemoval ==
    /\ kind = "sbd" /\ Running
    /\ IF m_pTargets # NoTargets
       THEN /\ lastOp' = Op("changesInDriverNodesAfterEdgeRemoval", "unsupported")
            /\ returned' = NoResult
       ELSE IF m_pGraph # NoGraph
       THEN /\ lastOp' = Op("changesInDriverNodesAfterEdgeRemoval", "ok")
            /\ returned' = Returned("changesInDriverNodesAfterEdgeRemoval",
                                    changesInDriverNodesAfterEdgeRemoval(m_pGraph))
       ELSE \/ /\ lastOp' = Op("changesInDriverNodesAfterEdgeRemoval", "crash")
               /\ returned' = NoResult
            \/ /\ lastOp' = Op("changesInDriverNodesAfterEdgeRemoval", "ok")
               /\ \E r \in GarbageVectors({-1, 0, 1}) :
                     returned' = Returned("changesInDriverNodesAfterEdgeRemoval", r)
    /\ UNCHANGED queryUnchanged

\* SwitchboardControllabilityModel::edgeClasses(): the classes of the vector
\* changesInDriverNodesAfterEdgeRemoval() returns.
SbdEdgeClasses ==
    /\ kind = "sbd" /\ Running
    /\ IF m_pTargets # NoTargets
       THEN /\ lastOp' = Op("edgeClasses", "unsupported")
            /\ returned' = NoResult
       ELSE IF m_pGraph # NoGraph
       THEN /\ lastOp' = Op("edgeClasses", "ok")
            /\ returned' = Returned("edgeClasses", SbdEdgeClassVector(m_pGraph))
       ELSE \/ /\ lastOp' = Op("edgeClasses", "crash")
               /\ returned' = NoResult
            \/ /\ lastOp' = Op("edgeClasses", "ok")
               /\ \E r \in GarbageVectors(SbdClasses) :
                     returned' = Returned("edgeClasses", r)
    /\ UNCHANGED queryUnchanged

\* SwitchboardControllabilityModel::controllability().  EDGE_MEASURE calls
\* needsInputSignal() through every pointer of m_controlPaths: through a
\* pointer to a deleted path the call is undefined.
Controllability ==
    /\ kind = "sbd" /\ Running
    /\ IF /\ m_pGraph # NoGraph
          /\ (m_controllabilityMeasure = "EDGE_MEASURE" => AllPathsLive)
       THEN /\ lastOp' = Op("controllability", "ok")
            /\ returned' = Returned("controllability",
                              SbdControllability(m_pGraph, m_controllabilityMeasure,
                                                 m_driverNodes, heap, m_controlPaths))
       ELSE \/ /\ lastOp' = Op("controllability", "crash")
               /\ returned' = NoResult
            \/ /\ lastOp' = Op("controllability", "ok")
               /\ \E num \in 0..Len(m_controlPaths), den \in 0..1 :
                     returned' = Returned("controllability", <<num, den>>)
    /\ UNCHANGED queryUnchanged

\* SwitchboardControllabilityModel::setControllabilityMeasure(measure)
SetControllabilityMeasure ==
    /\ kind = "sbd" /\ Running
    /\ \E measure \in {"NODE_MEASURE", "EDGE_MEASURE"} :
          m_controllabilityMeasure' = measure
    /\ lastOp' = Op("setControllabilityMeasure", "ok")
    /\ returned' = NoResult
    /\ UNCHANGED <<kind, m_pGraph, extMatching, m_driverNodes, m_matching,
                   m_controlPaths, heap, calls, dm, dmCall, m_pTargets, clone>>

NextQ ==
    \/ calls = 0 /\ LiuCalculateNoGraph
    \/ calls = 0 /\ LiuCalculate
    \/ calls = 0 /\ SbdCalculateOnGraph
    \/ calls = 0 /\ SbdCalculateNoGraph
    \/ LiuEdgeClasses
    \/ SbdEdgeClasses
    \/ ChangesInDriverNodesAfterEdgeRemoval
    \/ Controllability
    \/ SetControllabilityMeasure

\* A solver constructed without targets on which calculate() is the first
\* call and runs once, and the calls that return a value.  What a second
\* calculate() and setGraph() do is the matter of Spec.
SpecQ == Init /\ [][NextQ]_vars

\* A solver constructed with a target set.  The targeted calculate() of the
\* Liu solver is not among the steps.
NextT ==
    \/ LiuCalculateNoGraph
    \/ LiuEdgeClasses
    \/ SbdCalculateOnGraph
    \/ SbdCalculateNoGraph
    \/ SbdEdgeClasses
    \/ ChangesInDriverNodesAfterEdgeRemoval
    \/ SetGraph

SpecT == InitT /\ [][NextT]_vars

(***************************************************************************)
(* C1                                                                      *)
(***************************************************************************)

\* C1: after Liu calculate(), every vertex of the graph is in the vertex
\* list of exactly one control path of the list controlPaths() returns.
C1_EveryVertexInExactlyOnePath ==
    AfterLiuCalculate =>
        \A stale \in BOOLEAN :
            LET ps == PathsRead(heap, m_controlPaths, stale) IN
            \A v \in Vertices(m_pGraph) :
                Cardinality({i \in DOMAIN ps : v \in Range(ps[i].nodes)}) = 1

(***************************************************************************)
(* C2                                                                      *)
(***************************************************************************)

C3_MatchedPairsAreEdges ==
    AfterLiuCalculate =>
        /\ \A p \in MatchedPairs(m_matching) : p \in Range(m_pGraph.edges)
        /\ \A u \in Vertices(m_pGraph), v \in Vertices(m_pGraph) :
              (v \in Range(OutEntry(m_matching, u))) <=> (matchIn(m_matching, v) = u)

\* A calculate() that matched a pair (u, v) whose reverse v -> u is not an
\* edge of the graph.
C3_Witness ==
    /\ AfterLiuCalculate
    /\ \E p \in MatchedPairs(m_matching) :
          /\ p[1] # p[2]
          /\ <<p[2], p[1]>> \notin Range(m_pGraph.edges)

(***************************************************************************)
(* C4                                                                      *)
(***************************************************************************)

\* Number of stems in a list of control paths.
StemCount(ps) == Cardinality({i \in DOMAIN ps : ps[i].type = "stem"})

\* C4: after Liu calculate(), the number of driver nodes equals the number
\* of stems in the list of control paths, except that when every vertex is
\* matched the driver set is {0} and the list holds no stem.
C4_DriverCountEqualsStemCount ==
    AfterLiuCalculate =>
        \A stale \in BOOLEAN :
            LET ps == PathsRead(heap, m_controlPaths, stale) IN
            IF AllMatched
            THEN Range(m_driverNodes) = {0} /\ StemCount(ps) = 0
            ELSE Cardinality(Range(m_driverNodes)) = StemCount(ps)

(***************************************************************************)
(* C5 (SpecDM)                                                             *)
(***************************************************************************)

\* C5: after any sequence of setMatch(u, v) and unmatch(v) calls on a
\* DirectedMatching over n vertices, in(v) = u if and only if v is in
\* out(u), and every vertex is listed at most once in all the out-lists
\* together.
C5_InOutAgree ==
    /\ \A u \in 0..(DmSize(dm) - 1), v \in 0..(DmSize(dm) - 1) :
          (matchIn(dm, v) = u) <=> (v \in Range(OutEntry(dm, u)))
    /\ InPairs(dm) = OutPairs(dm)
    /\ \A v \in 0..(DmSize(dm) - 1) : OutOccurrences(dm, v) <= 1

\* An unmatch() has just taken a vertex out of an out-list that still holds
\* another vertex, while a second matcher holds a vertex too.
C5_Witness ==
    /\ dmCall[1] = "unmatch"
    /\ ~isMatched(dm, dmCall[2])
    /\ \E u \in DOMAIN dm.outMapping : Len(dm.outMapping[u]) >= 1
    /\ Cardinality(InPairs(dm)) >= 2

(***************************************************************************)
(* C6 (SpecDM)                                                             *)
(***************************************************************************)

\* C6: setMatch(u, v) removes the pair (u', v) if v was matched by u' # u;
\* afterwards in(v) = u and v is in out(u); every pair (x, y) with y # v is
\* as it was; and if (u, v) was there already nothing changes at all.
C6_SetMatchEffect ==
    [][dmCall'[1] = "setMatch" =>
          LET u == dmCall'[2]
              v == dmCall'[3]
          IN /\ \A w \in 0..(DmSize(dm) - 1) :
                    (matchIn(dm, v) = w /\ w # u) => <<w, v>> \notin MatchedPairs(dm')
             /\ matchIn(dm', v) = u
             /\ v \in Range(OutEntry(dm', u))
             /\ {p \in InPairs(dm') : p[2] # v} = {p \in InPairs(dm) : p[2] # v}
             /\ {p \in OutPairs(dm') : p[2] # v} = {p \in OutPairs(dm) : p[2] # v}
             /\ (<<u, v>> \in MatchedPairs(dm) => dm' = dm)
      ]_vars

\* A setMatch(u, v) has just been made and u now matches v and another
\* vertex listed after it.
C6_Witness ==
    /\ dmCall[1] = "setMatch"
    /\ matchIn(dm, dmCall[3]) = dmCall[2]
    /\ Len(OutEntry(dm, dmCall[2])) >= 2
    /\ OutEntry(dm, dmCall[2])[1] = dmCall[3]

(***************************************************************************)
(* C7                                                                      *)
(***************************************************************************)

\* C7: a calculate() that follows a calculate() on the same solver and the
\* same graph leaves the driver nodes, the matching and the control paths
\* (their order set aside) as the first call left them.
C7_SecondCalculateSameResult ==
    [][(/\ lastOp = Op("calculate", "ok")
        /\ m_pGraph # NoGraph
        /\ calls' = calls + 1
        /\ lastOp' = Op("calculate", "ok"))
       => /\ m_driverNodes' = m_driverNodes
          /\ m_matching' = m_matching
          /\ \A stale \in BOOLEAN :
                PathBag(PathsRead(heap', m_controlPaths', stale))
                    = PathBag(PathsRead(heap, m_controlPaths, stale))
      ]_vars

(***************************************************************************)
(* C8                                                                      *)
(***************************************************************************)

\* C8: a setGraph() on a solver that holds the results of a calculate()
\* leaves the driver nodes empty, the list of control paths empty and, for
\* the Liu solver, the matching without a matched pair.
C8_SetGraphInvalidatesResults ==
    [][(/\ lastOp = Op("calculate", "ok")
        /\ calls' = calls + 1
        /\ lastOp' = Op("setGraph", "ok"))
       => /\ m_driverNodes' = <<>>
          /\ m_controlPaths' = <<>>
          /\ (kind = "liu" => MatchedPairs(m_matching') = {})
      ]_vars

(***************************************************************************)
(* C9                                                                      *)
(***************************************************************************)

\* C9: whatever calculate() and setGraph() calls were made, the list
\* controlPaths() returns holds live control paths only: no pointer to a
\* path that a later calculate() or setGraph() released.
C9_OnlyLivePathsInList ==
    lastOp.result # "crash" => AllPathsLive

(***************************************************************************)
(* C10                                                                     *)
(***************************************************************************)

\* C10: calculate() on a solver without a graph, Liu or switchboard, ends
\* with the invalid-graph error and leaves the driver nodes, the matching
\* and the control paths as they were.
C10_CalculateWithoutGraphFails ==
    [][(/\ m_pGraph = NoGraph
        /\ calls' = calls + 1
        /\ lastOp'.op = "calculate")
       => /\ lastOp'.result = "invalid_graph"
          /\ UNCHANGED <<m_driverNodes, m_matching, m_controlPaths, heap>>
      ]_vars

(***************************************************************************)
(* C11                                                                     *)
(***************************************************************************)

\* C11: on a solver that has a target set, edgeClasses() of the Liu solver
\* and calculate() and edgeClasses() of the SBD solver each end with the
\* unsupported-operation error, return no classification and leave the
\* driver nodes and the control paths as they were.
C11_TargetsAreUnsupported ==
    [][(/\ m_pTargets # NoTargets
        /\ \/ LiuEdgeClasses
           \/ SbdEdgeClasses
           \/ SbdCalculateOnGraph
           \/ SbdCalculateNoGraph)
       => /\ lastOp'.result = "unsupported"
          /\ returned' = NoResult
          /\ UNCHANGED <<m_driverNodes, m_controlPaths, heap>>]_vars

(***************************************************************************)
(* C12                                                                     *)
(***************************************************************************)

\* Under SpecQ: calculate() has completed on the attached graph.
Calculated == calls >= 1 /\ m_pGraph # NoGraph /\ Running

\* edgeClasses() has just returned a vector on such a solver.
AfterEdgeClasses == Calculated /\ lastOp = Op("edgeClasses", "ok")

EdgeMatchings(g) ==
    {S \in SUBSET DOMAIN g.edges :
        \A i \in S, j \in S :
            i # j => /\ g.edges[i][1] # g.edges[j][1]
                     /\ g.edges[i][2] # g.edges[j][2]}

MaximumEdgeMatchings(g) ==
    LET all == EdgeMatchings(g) IN
    {S \in all : \A T \in all : Cardinality(T) <= Cardinality(S)}

\* The class the definition gives edge i of g.
ClassByMatchings(g, i) ==
    LET best == MaximumEdgeMatchings(g) IN
    IF \A S \in best : i \in S THEN "CRITICAL"
    ELSE IF \A S \in best : i \notin S THEN "REDUNDANT"
    ELSE "ORDINARY"

\* C13: the Liu classifier marks an edge CRITICAL exactly when it is in
\* every maximum matching of the bipartite representation, REDUNDANT exactly
\* when it is in none and ORDINARY exactly when it is in some but not all,
\* whichever maximum matching calculate() stored.
C13_ClassesFollowMaximumMatchings ==
    (AfterEdgeClasses /\ kind = "liu") =>
        \A i \in DOMAIN m_pGraph.edges :
            returned.value[i] = ClassByMatchings(m_pGraph, i)

(***************************************************************************)
(* C14                                                                     *)
(***************************************************************************)

\* g with the edge of index i taken out.
WithoutEdge(g, i) == [n |-> g.n, edges |-> RemoveAt(g.edges, i)]

\* The change of the number of SBD driver nodes when edge i goes.
DriverCountChange(g, i) ==
    Len(SbdDriverNodes(WithoutEdge(g, i))) - Len(SbdDriverNodes(g))

\* changesInDriverNodesAfterEdgeRemoval() has just returned on a solver
\* with a graph.
AfterChanges ==
    /\ kind = "sbd" /\ m_pGraph # NoGraph
    /\ lastOp = Op("changesInDriverNodesAfterEdgeRemoval", "ok")

\* C14: element i of changesInDriverNodesAfterEdgeRemoval() is the number
\* of SBD driver nodes of the graph without edge i minus the number of SBD
\* driver nodes of the graph.
C14_ChangesAreDriverCountDifferences ==
    AfterChanges =>
        \A i \in DOMAIN m_pGraph.edges :
            returned.value[i] = DriverCountChange(m_pGraph, i)

(***************************************************************************)
(* C15                                                                     *)
(***************************************************************************)

\* An SBD calculate() has just returned on a solver with a graph.
AfterSbdCalculate ==
    kind = "sbd" /\ lastOp = Op("calculate", "ok") /\ m_pGraph # NoGraph

\* The steps u -> v a walk takes, in order: an open walk goes from each of
\* its vertices to the next, a closed walk also from its last to its first.
WalkSteps(path) ==
    LET nodes == path.nodes IN
    IF path.type = "open walk"
    THEN [i \in 1..(Len(nodes) - 1) |-> <<nodes[i], nodes[i + 1]>>]
    ELSE IF path.type = "closed walk"
    THEN [i \in 1..Len(nodes) |-> <<nodes[i], nodes[(i % Len(nodes)) + 1]>>]
    ELSE <<>>

\* How many steps of the walks ps go from u to v.
StepCount(ps, u, v) ==
    Cardinality({ki \in UNION {{<<k, i>> : i \in DOMAIN WalkSteps(ps[k])} :
                               k \in DOMAIN ps} :
                 WalkSteps(ps[ki[1]])[ki[2]] = <<u, v>>})

\* The walks of controlPaths() take exactly one step per edge of g.
WalksCoverEdgesOnce(g, ps) ==
    \A u \in Vertices(g), v \in Vertices(g) :
        StepCount(ps, u, v) = Cardinality(getEid(g, u, v))

\* C15: after SBD calculate() every edge of the graph is marked used, and
\* the walks of controlPaths() traverse every edge exactly once: as many
\* steps go from u to v as there are edges from u to v.
C15_WalksCoverEveryEdgeOnce ==
    AfterSbdCalculate =>
        /\ SbdCalculate(m_pGraph, <<>>, <<>>).edgeUsed = DOMAIN m_pGraph.edges
        /\ \A stale \in BOOLEAN :
              WalksCoverEdgesOnce(m_pGraph, PathsRead(heap, m_controlPaths, stale))

(***************************************************************************)
(* C16                                                                     *)
(***************************************************************************)

\* The vertices with more edges leaving than entering.
DivergentVertices(g) == {v \in Vertices(g) : OutDegree(g, v) > InDegree(g, v)}

\* The weakly connected components that have an edge and whose vertices all
\* have as many edges leaving as entering.
BalancedComponents(g) ==
    {C \in {WeakComponent(g, v) : v \in Vertices(g)} :
        /\ \E i \in DOMAIN g.edges : g.edges[i][1] \in C
        /\ \A v \in C : OutDegree(g, v) = InDegree(g, v)}

\* C16: after SBD calculate() the driver nodes are the divergent vertices
\* and the lowest vertex of every balanced component that has an edge, each
\* listed once, and no other vertex.
C16_DriversAreDivergentOrLowestOfBalanced ==
    AfterSbdCalculate =>
        LET expected == DivergentVertices(m_pGraph)
                        \cup {Min(C) : C \in BalancedComponents(m_pGraph)}
        IN /\ Range(m_driverNodes) = expected
           /\ Len(m_driverNodes) = Cardinality(expected)

\* calculate() has returned on a graph that has a balanced component of two
\* vertices or more.
C16_Witness ==
    /\ AfterSbdCalculate
    /\ \E C \in BalancedComponents(m_pGraph) : Cardinality(C) >= 2

(***************************************************************************)
(* C17                                                                     *)
(***************************************************************************)

\* controllability() has just returned under EDGE_MEASURE on a solver
\* whose calculate() has completed.
AfterEdgeMeasure ==
    /\ kind = "sbd" /\ Calculated
    /\ m_controllabilityMeasure = "EDGE_MEASURE"
    /\ lastOp = Op("controllability", "ok")

\* The open walks among the control paths.
OpenWalkCount(h, paths) ==
    Cardinality({i \in DOMAIN paths :
                    paths[i] # NULL /\ h[paths[i]].type = "open walk"})

\* C17: under EDGE_MEASURE controllability() after calculate() is the
\* number of open walks plus the number of balanced components, divided by
\* the number of edges.
C17_EdgeMeasureCountsBalancedComponents ==
    AfterEdgeMeasure =>
        returned.value =
            <<OpenWalkCount(heap, m_controlPaths)
                  + Cardinality(BalancedComponents(m_pGraph)),
              ecount(m_pGraph)>>

(***************************************************************************)
(* C18                                                                     *)
(***************************************************************************)

\* The graph with no vertex and no edge.
EmptyGraph == [n |-> 0, edges |-> <<>>]

\* C18: on the empty graph calculate() succeeds for either solver, leaves
\* no driver node and no control path, and the vector edgeClasses() returns
\* afterwards has length 0.
C18_EmptyGraphGivesEmptyResults ==
    (m_pGraph = EmptyGraph /\ calls >= 1) =>
        /\ lastOp.result = "ok"
        /\ m_driverNodes = <<>>
        /\ m_controlPaths = <<>>
        /\ (lastOp.op = "edgeClasses" => returned = Returned("edgeClasses", <<>>))

(***************************************************************************)
(* C19                                                                     *)
(***************************************************************************)

\* The graph with one vertex and no edge.
SingleVertexGraph == [n |-> 1, edges |-> <<>>]

\* calculate() has completed on the graph with one vertex and no edge.
AfterSingleVertex == m_pGraph = SingleVertexGraph /\ calls >= 1 /\ Running

\* The vertex lists of the control paths, in the order of controlPaths().
PathNodes(h, paths) == [i \in DOMAIN paths |-> h[paths[i]].nodes]

\* C19 as stated: on the graph with one vertex and no edge calculate()
\* yields the driver node 0 and exactly one control path, with the vertex
\* list [0], under the Liu solver and under the SBD solver.
C19_SingleVertexIsDriver ==
    AfterSingleVertex =>
        /\ m_driverNodes = <<0>>
        /\ AllPathsLive
        /\ PathNodes(heap, m_controlPaths) = <<(<<0>>)>>

\* C19 as the code has it: the Liu solver yields the driver node 0 and one
\* control path, the stem [0]; the SBD solver yields no driver node and no
\* control path.
C19_SingleVertexLiuOnly ==
    AfterSingleVertex =>
        /\ AllPathsLive
        /\ IF kind = "liu"
           THEN /\ m_driverNodes = <<0>>
                /\ PathNodes(heap, m_controlPaths) = <<(<<0>>)>>
                /\ heap[m_controlPaths[1]].type = "stem"
           ELSE /\ m_driverNodes = <<>>
                /\ m_controlPaths = <<>>

\* The SBD solver has run calculate() on the graph with one vertex and no
\* edge.
C19_Witness == AfterSingleVertex /\ kind = "sbd"

(***************************************************************************)
(* C20                                                                     *)
(***************************************************************************)

\* Two cycles, {0, 1} and {2, 3}, and the vertex 4 with an edge into the
\* second.
TwoCyclesAndTail ==
    [n |-> 5, edges |-> <<<<0, 1>>, <<1, 0>>, <<2, 3>>, <<3, 2>>, <<4, 2>>>>]

\* The complete bipartite graph from {0, 1} to {2, 3}.
CompleteBipartite ==
    [n |-> 4, edges |-> <<<<0, 2>>, <<0, 3>>, <<1, 2>>, <<1, 3>>>>]

\* The directed cycle 0 -> 1 -> 2 -> 0.
DirectedCycle == [n |-> 3, edges |-> <<<<0, 1>>, <<1, 2>>, <<2, 0>>>>]

\* A solver constructed on one of the example graphs.
InitEx ==
    /\ kind \in {"liu", "sbd"}
    /\ m_pGraph \in {TwoCyclesAndTail, CompleteBipartite, DirectedCycle}
    /\ extMatching \in ExternalAnswers(kind, m_pGraph)
    /\ m_driverNodes = <<>>
    /\ m_matching = DirectedMatchingEmpty
    /\ m_controlPaths = <<>>
    /\ heap = <<>>
    /\ calls = 0
    /\ lastOp = Op("new", "ok")
    /\ dm = DirectedMatchingEmpty
    /\ dmCall = <<"new", 0, 0>>
    /\ m_pTargets = NoTargets
    /\ m_controllabilityMeasure = "NODE_MEASURE"
    /\ returned = NoResult
    /\ clone = NoClone

NextEx ==
    \/ Next
    \/ LiuEdgeClasses
    \/ SbdEdgeClasses
    \/ ChangesInDriverNodesAfterEdgeRemoval
    \/ Controllability
    \/ SetControllabilityMeasure

SpecEx == InitEx /\ [][NextEx]_vars

\* Liu calculate() has just returned on the example graph.
AfterLiuOnTwoCyclesAndTail ==
    AfterLiuCalculate /\ m_pGraph = TwoCyclesAndTail

\* C20 as stated: on the graph 0->1, 1->0, 2->3, 3->2, 4->2 Liu calculate()
\* yields the driver set {0, 4}.
C20_DriversAreZeroAndFour ==
    AfterLiuOnTwoCyclesAndTail => Range(m_driverNodes) = {0, 4}

\* C20 as the code has it: the driver set is {4}, the one vertex no
\* maximum matching matches; the cycle {0, 1} adds no driver.
C20_DriverIsFour ==
    AfterLiuOnTwoCyclesAndTail => m_driverNodes = <<4>>

\* calculate() has returned on the example graph with the matching that
\* holds 4 -> 2: the stem from 4 runs through 2 and 3.
C20_Witness ==
    /\ AfterLiuOnTwoCyclesAndTail
    /\ matchIn(m_matching, 2) = 4
    /\ AllPathsLive
    /\ \E i \in DOMAIN m_controlPaths :
          /\ heap[m_controlPaths[i]].type = "stem"
          /\ heap[m_controlPaths[i]].nodes = <<4, 2, 3>>

(***************************************************************************)
(* C21                                                                     *)
(***************************************************************************)

\* edgeClasses() has just returned on the Liu solver that ran calculate()
\* on the complete bipartite example (no other graph has four vertices).
AfterClassesOnCompleteBipartite ==
    /\ kind = "liu"
    /\ m_pGraph = CompleteBipartite
    /\ DmSize(m_matching) = 4
    /\ lastOp = Op("edgeClasses", "ok")

\* C21 as stated: on the graph 0->2, 0->3, 1->2, 1->3 edgeClasses() after
\* Liu calculate() marks the two matched edges CRITICAL and the two
\* unmatched edges ORDINARY.
C21_MatchedCriticalUnmatchedOrdinary ==
    AfterClassesOnCompleteBipartite =>
        \A i \in DOMAIN m_pGraph.edges :
            returned.value[i] =
                IF matchIn(m_matching, m_pGraph.edges[i][2]) = m_pGraph.edges[i][1]
                THEN "CRITICAL" ELSE "ORDINARY"

\* C21 as the code has it: all four edges are ORDINARY, the four of them
\* forming one alternating cycle.
C21_AllOrdinary ==
    AfterClassesOnCompleteBipartite =>
        returned.value = <<"ORDINARY", "ORDINARY", "ORDINARY", "ORDINARY">>

\* The classes were returned for the matching that holds 0 -> 2 and 1 -> 3.
C21_Witness ==
    /\ AfterClassesOnCompleteBipartite
    /\ matchIn(m_matching, 2) = 0
    /\ matchIn(m_matching, 3) = 1

(***************************************************************************)
(* C23                                                                     *)
(***************************************************************************)

\* The control paths of the given kind that the last calculate() created:
\* the live objects m_controlPaths points to.
LivePaths(type) ==
    {heap[m_controlPaths[i]] :
        i \in {j \in DOMAIN m_controlPaths :
                  /\ m_controlPaths[j] # NULL
                  /\ heap[m_controlPaths[j]].live
                  /\ heap[m_controlPaths[j]].type = type}}

\* u -> v is an edge of g that the matching m holds.
MatchedEdge(g, m, u, v) == getEid(g, u, v) # {} /\ <<u, v>> \in MatchedPairs(m)

\* C23: every bud of Liu calculate() is a cycle of matched edges as listed:
\* each vertex of its list and the next one, the last and the first, are a
\* matched pair and an edge of the graph.
C23_BudsAreMatchedCycles ==
    AfterLiuCalculate =>
        \A bud \in LivePaths("bud") :
            \A i \in DOMAIN bud.nodes :
                MatchedEdge(m_pGraph, m_matching, bud.nodes[i],
                            bud.nodes[(i % Len(bud.nodes)) + 1])

(***************************************************************************)
(* C24                                                                     *)
(***************************************************************************)

\* C24: every stem of Liu calculate() on an untargeted problem starts at a
\* driver node, each of its vertices and the next one are a matched pair
\* and an edge of the graph, its last vertex matches no vertex and no
\* vertex is in it twice.
C24_StemsAreMatchedPaths ==
    (AfterLiuCalculate /\ m_pTargets = NoTargets) =>
        \A stem \in LivePaths("stem") :
            /\ stem.nodes # <<>>
            /\ Head(stem.nodes) \in Range(m_driverNodes)
            /\ \A i \in 1..(Len(stem.nodes) - 1) :
                  MatchedEdge(m_pGraph, m_matching, stem.nodes[i], stem.nodes[i + 1])
            /\ ~isMatching(m_matching, Last(stem.nodes))
            /\ Cardinality(Range(stem.nodes)) = Len(stem.nodes)

\* calculate() has produced a stem of three vertices.
C24_Witness ==
    /\ AfterLiuCalculate
    /\ \E stem \in LivePaths("stem") : Len(stem.nodes) >= 3

(***************************************************************************)
(* C25                                                                     *)
(***************************************************************************)

\* C25: the edge classes the switchboard solver returns for a graph never
\* hold REDUNDANT, so that the count of redundant edges in the statistics
\* is 0.
C25_NoRedundantUnderSbd ==
    (AfterEdgeClasses /\ kind = "sbd" /\ m_pGraph # NoGraph) =>
        "REDUNDANT" \notin Range(returned.value)

(***************************************************************************)
(* C26                                                                     *)
(***************************************************************************)

\* The run of calculate() on the attached graph: its calls of
\* createControlPathFromNode and the degrees between its two loops.
CalculateRun == SbdCalculate(m_pGraph, <<>>, <<>>)

\* The calls of createControlPathFromNode that one of the two loops made.
CallsOf(loop) ==
    {CalculateRun.calls[i] :
        i \in {j \in DOMAIN CalculateRun.calls : CalculateRun.calls[j].loop = loop}}

\* The sum over the vertices of max(0, out-degree - in-degree).
Surplus(g) ==
    Cardinality({p \in Vertices(g) \X (1..ecount(g)) :
                    p[2] <= OutDegree(g, p[1]) - InDegree(g, p[1])})

\* How many calls of the run came back with an open walk.
OpenWalksOfRun ==
    Cardinality({i \in DOMAIN CalculateRun.calls :
                    CalculateRun.calls[i].path.type = "open walk"})

\* C26: in calculate() of the switchboard solver every walk of the first
\* loop starts at a vertex whose remaining out-degree exceeds its remaining
\* in-degree, ends at another vertex and is an open walk; between the two
\* loops the remaining in- and out-degree of every vertex are equal; every
\* walk of the second loop comes back to its start and is a closed walk;
\* and there are as many open walks as the sum over the vertices of
\* max(0, out-degree - in-degree).
C26_OpenWalksThenClosedWalks ==
    AfterSbdCalculate =>
        /\ \A c \in CallsOf("divergent") :
              /\ c.before.outDegrees[c.start] > c.before.inDegrees[c.start]
              /\ c.path.type = "open walk"
              /\ Head(c.path.nodes) = c.start
              /\ Last(c.path.nodes) # c.start
        /\ \A v \in Vertices(m_pGraph) :
              CalculateRun.afterDrivers.outDegrees[v] = CalculateRun.afterDrivers.inDegrees[v]
        /\ \A c \in CallsOf("balanced") :
              /\ c.path.type = "closed walk"
              /\ Head(c.path.nodes) = c.start
              /\ c.after.outDegrees[c.start] = c.after.inDegrees[c.start]
        /\ OpenWalksOfRun = Surplus(m_pGraph)

\* calculate() has made a walk in each of its two loops.
C26_Witness ==
    /\ AfterSbdCalculate
    /\ CallsOf("divergent") # {}
    /\ CallsOf("balanced") # {}

(***************************************************************************)
(* C29                                                                     *)
(***************************************************************************)

\* The degree vectors of d count the edges of g that are not in d.edgeUsed:
\* outDegrees[v] those that leave v, inDegrees[v] those that enter v.
DegreesCountUnusedEdges(g, d) ==
    \A v \in Vertices(g) :
        /\ d.outDegrees[v] =
              Cardinality({e \in DOMAIN g.edges \ d.edgeUsed : g.edges[e][1] = v})
        /\ d.inDegrees[v] =
              Cardinality({e \in DOMAIN g.edges \ d.edgeUsed : g.edges[e][2] = v})
        /\ d.outDegrees[v] >= 0
        /\ d.inDegrees[v] >= 0

\* C29: before and after every call of createControlPathFromNode that
\* calculate() of the switchboard solver makes, outDegrees[v] is the number
\* of unused edges that leave v and inDegrees[v] the number of unused edges
\* that enter v, self-loops and parallel edges counted, and neither is
\* negative.
C29_DegreesCountUnusedEdges ==
    AfterSbdCalculate =>
        \A i \in DOMAIN CalculateRun.calls :
            /\ DegreesCountUnusedEdges(m_pGraph, CalculateRun.calls[i].before)
            /\ DegreesCountUnusedEdges(m_pGraph, CalculateRun.calls[i].after)

\* calculate() has made two walks on a graph with a self-loop or with
\* parallel edges.
C29_Witness ==
    /\ AfterSbdCalculate
    /\ Len(CalculateRun.calls) >= 2
    /\ \E e \in DOMAIN m_pGraph.edges :
          \/ m_pGraph.edges[e][1] = m_pGraph.edges[e][2]
          \/ \E f \in DOMAIN m_pGraph.edges : f # e /\ m_pGraph.edges[f] = m_pGraph.edges[e]

(***************************************************************************)
(* clone(), and calculate() on the solver it made                          *)
(***************************************************************************)

\* clone(): new LiuControllabilityModel(m_pGraph, m_pTargets), or new
\* SwitchboardControllabilityModel(m_pGraph) followed by
\* setControllabilityMeasure(controllabilityMeasure()).  The new solver
\* points to the graph of this one, so the external matching solver gives
\* it the answer it gives this one.  One clone is made.
Clone ==
    /\ Running /\ clone = NoClone
    /\ clone' = [kind           |-> kind,
                 m_pGraph       |-> m_pGraph,
                 extMatching    |-> extMatching,
                 m_pTargets     |-> IF kind = "liu" THEN m_pTargets ELSE NoTargets,
                 m_controllabilityMeasure |->
                     IF kind = "sbd" THEN m_controllabilityMeasure ELSE "NODE_MEASURE",
                 m_driverNodes  |-> <<>>,
                 m_matching     |-> DirectedMatchingEmpty,
                 m_controlPaths |-> <<>>]
    /\ lastOp' = Op("clone", "ok")
    /\ returned' = NoResult
    /\ UNCHANGED <<kind, m_pGraph, extMatching, m_driverNodes, m_matching,
                   m_controlPaths, heap, calls, dm, dmCall, m_pTargets,
                   m_controllabilityMeasure>>

\* calculate() on the clone of a Liu solver, untargeted problem.
CloneLiuCalculate ==
    /\ clone.kind = "liu" /\ CanCall /\ clone.m_pTargets = NoTargets
    /\ calls' = calls + 1
    /\ returned' = NoResult
    /\ IF clone.m_pGraph = NoGraph
       THEN /\ lastOp' = Op("clone.calculate", "invalid_graph")
            /\ UNCHANGED <<clone, heap>>
       ELSE LET m == calculateUntargetedMatching(clone.m_pGraph, clone.extMatching) IN
            LET r == calculateControlPaths(clone.m_pGraph, m, heap, clone.m_controlPaths) IN
            \/ /\ clone' = [clone EXCEPT !.m_matching = m,
                                          !.m_driverNodes = r.drivers,
                                          !.m_controlPaths = r.paths]
               /\ heap' = r.heap
               /\ lastOp' = Op("clone.calculate", "ok")
            \/ /\ DeletesTwice(heap, clone.m_controlPaths)
               /\ clone' = [clone EXCEPT !.m_matching = m,
                                          !.m_driverNodes =
                                              UnmatchedFrom(m, 0, clone.m_pGraph.n)]
               /\ lastOp' = Op("clone.calculate", "crash")
               /\ UNCHANGED heap
    /\ UNCHANGED <<kind, m_pGraph, extMatching, m_driverNodes, m_matching,
                   m_controlPaths, dm, dmCall, m_pTargets, m_controllabilityMeasure>>

\* calculate() on the clone of a switchboard solver.  Without a graph the
\* behaviour is undefined, as it is for the solver it was made from.
CloneSbdCalculate ==
    /\ clone.kind = "sbd" /\ CanCall
    /\ calls' = calls + 1
    /\ returned' = NoResult
    /\ \/ /\ clone.m_pGraph = NoGraph
          /\ lastOp' = Op("clone.calculate", "crash")
          /\ UNCHANGED <<clone, heap>>
       \/ \E g \in IF clone.m_pGraph = NoGraph THEN SetGraphArgs \ {NoGraph}
                                                ELSE {clone.m_pGraph} :
             LET r == SbdCalculate(g, heap, clone.m_controlPaths) IN
             \/ /\ clone' = [clone EXCEPT !.m_driverNodes = r.drivers,
                                           !.m_controlPaths = r.paths]
                /\ heap' = r.heap
                /\ lastOp' = Op("clone.calculate", "ok")
             \/ /\ DeletesTwice(heap, clone.m_controlPaths)
                /\ clone' = [clone EXCEPT !.m_driverNodes = r.drivers]
                /\ lastOp' = Op("clone.calculate", "crash")
                /\ UNCHANGED heap
    /\ UNCHANGED <<kind, m_pGraph, extMatching, m_driverNodes, m_matching,
                   m_controlPaths, dm, dmCall, m_pTargets, m_controllabilityMeasure>>

\* A solver of either class, constructed on one of the graphs that
\* setGraph() is given here, or on none.
InitC ==
    /\ kind \in {"liu", "sbd"}
    /\ m_pGraph \in SetGraphArgs
    /\ extMatching \in ExternalAnswers(kind, m_pGraph)
    /\ m_driverNodes = <<>>
    /\ m_matching = DirectedMatchingEmpty
    /\ m_controlPaths = <<>>
    /\ heap = <<>>
    /\ calls = 0
    /\ lastOp = Op("new", "ok")
    /\ dm = DirectedMatchingEmpty
    /\ dmCall = <<"new", 0, 0>>
    /\ m_pTargets = NoTargets
    /\ m_controllabilityMeasure = "NODE_MEASURE"
    /\ returned = NoResult
    /\ clone = NoClone

NextC ==
    \/ LiuCalculateNoGraph
    \/ LiuCalculate
    \/ SbdCalculateOnGraph
    \/ SbdCalculateNoGraph
    \/ Clone
    \/ CloneLiuCalculate
    \/ CloneSbdCalculate

SpecC == InitC /\ [][NextC]_vars

(***************************************************************************)
(* C22                                                                     *)
(***************************************************************************)

\* The control paths a solver lists, read through its pointers.
ListedPaths(paths) ==
    {PathBag(PathsRead(heap, paths, stale)) : stale \in BOOLEAN}

\* C22: clone() returns a solver attached to the graph of the original,
\* with no driver nodes and no control paths, and leaves the results of the
\* original as they are; and when calculate() has been called on the
\* original and then on the clone, both hold the same set of driver nodes
\* and the same set of control paths.
C22_CloneIsFreshAndCalculatesTheSame ==
    [][/\ Clone =>
            /\ clone'.m_pGraph = m_pGraph
            /\ clone'.m_driverNodes = <<>>
            /\ clone'.m_controlPaths = <<>>
            /\ UNCHANGED <<m_pGraph, m_driverNodes, m_matching, m_controlPaths, heap>>
       /\ (/\ clone # NoClone
           /\ m_pGraph # NoGraph
           /\ lastOp = Op("calculate", "ok")
           /\ lastOp' = Op("clone.calculate", "ok")) =>
            /\ Range(clone'.m_driverNodes) = Range(m_driverNodes')
            /\ ListedPaths(clone.m_controlPaths)' = ListedPaths(m_controlPaths)'
      ]_vars

(***************************************************************************)
(* SwitchboardControllabilityModel::calculate() with the merging of closed *)
(* walks                                                                   *)
(***************************************************************************)

\* closedWalkPos is set by a call that is the argument of assert().  With
\* NDEBUG (the release build) the call is not compiled and closedWalkPos is
\* read uninitialized.  Checked stands for the build that keeps the call; in
\* the other build uninit is [pos, beyond]: the value closedWalkPos holds and
\* the value a read beyond the end of closedWalkNodes yields.
Checked == [pos |-> -1, beyond |-> -1]

\* The largest value taken for an uninitialized closedWalkPos.
MaxUninit == 3

\* The values an uninitialized closedWalkPos and a read beyond the vector
\* take for the graph g: the read yields a number that is a vertex (any
\* other number sends the later lookups by node beyond their vector too).
Uninitialized(g) == [pos : 0..MaxUninit, beyond : Vertices(g)]

\* The second loop of extendWith: the nodes written to m_nodes[pos..n-1],
\* read from closedWalkNodes[j] with j starting at closedWalkPos and set to
\* 0 when it is closedWalkNodes.size().
MergedNodes(closedWalkNodes, closedWalkPos, beyond) ==
    LET size == Len(closedWalkNodes) IN
    [k \in 1..size |->
        IF closedWalkPos <= size
        THEN closedWalkNodes[((closedWalkPos + k - 1) % size) + 1]
        ELSE beyond]

\* SwitchboardControlPath::extendWith(walk) on a path with the nodes nodes:
\* the closed walk is put in before the first node of the path that is on
\* it.
extendWith(nodes, closedWalkNodes, uninit) ==
    LET found == {i \in DOMAIN nodes : nodes[i] \in Range(closedWalkNodes)} IN
    IF found = {} THEN nodes
    ELSE LET pos == Min(found)
             closedWalkPos == IF uninit = Checked
                              THEN IndexOf(closedWalkNodes, nodes[pos]) - 1
                              ELSE uninit.pos
         IN SubSeq(nodes, 1, pos - 1)
            \o MergedNodes(closedWalkNodes, closedWalkPos, uninit.beyond)
            \o SubSeq(nodes, pos, Len(nodes))

\* findControlPathAdjacentTo(path, controlPathsByNodes), nodes being the
\* nodes of the path from the i-th on.
RECURSIVE findControlPathAdjacentTo(_, _, _, _)
findControlPathAdjacentTo(path, nodes, i, controlPathsByNodes) ==
    IF i > Len(nodes) THEN NULL
    ELSE LET otherPath == controlPathsByNodes[nodes[i]] IN
         IF otherPath # NULL /\ otherPath # path THEN otherPath
         ELSE findControlPathAdjacentTo(path, nodes, i + 1, controlPathsByNodes)

\* updateControlPathsByNodesMapping(controlPathsByNodes, path, pNodes)
updateControlPathsByNodesMapping(controlPathsByNodes, path, nodes) ==
    [v \in DOMAIN controlPathsByNodes |->
        IF v \in Range(nodes) THEN path ELSE controlPathsByNodes[v]]

\* updateControlPathsByNodesMapping(controlPathsByNodes, p) for the paths
\* ptrs in order
RECURSIVE MapPaths(_, _, _)
MapPaths(h, ptrs, controlPathsByNodes) ==
    IF ptrs = <<>> THEN controlPathsByNodes
    ELSE MapPaths(h, Tail(ptrs),
             IF Head(ptrs) = NULL THEN controlPathsByNodes
             ELSE updateControlPathsByNodesMapping(controlPathsByNodes, Head(ptrs),
                                                   h[Head(ptrs)].nodes))

\* One pass of tryToMergeClosedWalks over the queue, up to the sentinel.  ms
\* is [heap, byNodes, merged]; todo are the walks before the sentinel, kept
\* the walks put back behind it.
RECURSIVE MergePass(_, _, _, _, _)
MergePass(ms, todo, kept, finished, uninit) ==
    IF todo = <<>> THEN [ms |-> ms, queue |-> kept, finished |-> finished]
    ELSE LET closedWalk == Head(todo) IN
         Bind(findControlPathAdjacentTo(closedWalk, ms.heap[closedWalk].nodes, 1,
                                        ms.byNodes),
              LAMBDA adjacentControlPath :
                 IF adjacentControlPath # NULL
                 THEN Bind([heap    |-> [ms.heap EXCEPT ![adjacentControlPath].nodes =
                                            extendWith(ms.heap[adjacentControlPath].nodes,
                                                       ms.heap[closedWalk].nodes, uninit)],
                            byNodes |-> updateControlPathsByNodesMapping(
                                            ms.byNodes, adjacentControlPath,
                                            ms.heap[closedWalk].nodes),
                            merged  |-> ms.merged + 1],
                           LAMBDA extended :
                              MergePass(extended, Tail(todo), kept, FALSE, uninit))
                 ELSE MergePass(ms, Tail(todo), Append(kept, closedWalk), finished, uninit))

\* tryToMergeClosedWalks(closedWalksToMerge, controlPathsByNodes): passes
\* over the queue until one of them merges nothing.
RECURSIVE tryToMergeClosedWalks(_, _, _)
tryToMergeClosedWalks(ms, closedWalksToMerge, uninit) ==
    Bind(MergePass(ms, closedWalksToMerge, <<>>, TRUE, uninit),
         LAMBDA pass :
            IF pass.finished THEN [ms |-> pass.ms, queue |-> pass.queue]
            ELSE tryToMergeClosedWalks(pass.ms, pass.queue, uninit))

\* The end of calculate() with the merging of closed walks: st0, st1 and
\* st2 are the states before the first loop, between the loops and after
\* the second.
MergeQueued(g, st0, st1, st2, uninit) ==
    LET opened == SubSeq(st1.paths, Len(st0.paths) + 1, Len(st1.paths))
        closed == SubSeq(st2.paths, Len(st1.paths) + 1, Len(st2.paths))
    IN Bind(tryToMergeClosedWalks(
                [heap    |-> st2.heap,
                 byNodes |-> MapPaths(st2.heap, opened, [v \in Vertices(g) |-> NULL]),
                 merged  |-> 0],
                closed, uninit),
            LAMBDA first :
               Bind(tryToMergeClosedWalks(
                        [first.ms EXCEPT !.byNodes =
                            MapPaths(first.ms.heap, first.queue, first.ms.byNodes)],
                        first.queue, uninit),
                    LAMBDA second :
                       [heap |-> second.ms.heap,
                        paths |-> st1.paths \o second.queue,
                        merged |-> second.ms.merged,
                        queued |-> closed, afterFirst |-> first.queue]))

\* calculate() with the merging of closed walks on the graph g: the walks
\* of the first loop are stored and entered in controlPathsByNodes, those of
\* the second loop are queued; the queue is merged into the stored walks,
\* then what is left of it is entered in controlPathsByNodes and merged
\* again, and what is left then is stored.
SbdCalculateMerged(g, h, paths, uninit) ==
    Bind(WalkStart(g, h, paths), LAMBDA st0 :
    Bind(WalksFromDrivers(g, SbdDriverNodes(g), 1, st0), LAMBDA st1 :
    Bind(WalksFromNodes(g, 0, st1), LAMBDA st2 :
    Bind(MergeQueued(g, st0, st1, st2, uninit), LAMBDA r :
        [drivers |-> SbdDriverNodes(g), heap |-> r.heap, paths |-> r.paths,
         merged |-> r.merged, queued |-> r.queued, afterFirst |-> r.afterFirst]))))

\* SwitchboardControllabilityModel::calculate() with the merging of closed
\* walks, on a graph.  Where closedWalkPos is read uninitialized and a walk
\* was merged, the process may also die on a read beyond the vector.
SbdCalculateMerging ==
    /\ kind = "sbd" /\ CanCall /\ m_pGraph # NoGraph
    /\ calls' = calls + 1
    /\ returned' = NoResult
    /\ IF m_pTargets # NoTargets
       THEN /\ lastOp' = Op("calculate", "unsupported")
            /\ UNCHANGED <<m_driverNodes, m_controlPaths, heap>>
       ELSE \E uninit \in {Checked} \cup Uninitialized(m_pGraph) :
            \E r \in {SbdCalculateMerged(m_pGraph, heap, m_controlPaths, uninit)} :
            /\ m_driverNodes' = r.drivers
            /\ \/ /\ m_controlPaths' = r.paths
                  /\ heap' = r.heap
                  /\ lastOp' = Op("calculate", "ok")
               \/ /\ \/ DeletesTwice(heap, m_controlPaths)
                     \/ uninit # Checked /\ r.merged > 0
                  /\ lastOp' = Op("calculate", "crash")
                  /\ UNCHANGED <<m_controlPaths, heap>>
    /\ UNCHANGED <<kind, m_pGraph, extMatching, m_matching, dm, dmCall>>
    /\ UNCHANGED settingVars

\* An open walk 0 -> 1 -> 2 and a closed walk 0 -> 1 -> 0 left for the second
\* loop.
ClosedWalkOnOpenWalk ==
    [n |-> 3, edges |-> <<<<0, 1>>, <<1, 2>>, <<1, 0>>, <<0, 1>>>>]

\* Two closed walks, 0 -> 1 -> 0 and 1 -> 2 -> 1, and no open walk.
TwoClosedWalks ==
    [n |-> 3, edges |-> <<<<0, 1>>, <<1, 0>>, <<1, 2>>, <<2, 1>>>>]

\* Two closed walks on {0, 1, 2} and a loop at 3.
TwoClosedWalksAndLoop ==
    [n |-> 4, edges |-> <<<<0, 1>>, <<1, 0>>, <<1, 2>>, <<2, 1>>, <<3, 3>>>>]

\* A switchboard solver constructed on one of the graphs above or on one of
\* the example graphs.
InitM ==
    /\ kind = "sbd"
    /\ m_pGraph \in {ClosedWalkOnOpenWalk, TwoClosedWalks, TwoClosedWalksAndLoop,
                     TwoCyclesAndTail, DirectedCycle}
    /\ extMatching = <<>>
    /\ m_driverNodes = <<>>
    /\ m_matching = DirectedMatchingEmpty
    /\ m_controlPaths = <<>>
    /\ heap = <<>>
    /\ calls = 0
    /\ lastOp = Op("new", "ok")
    /\ dm = DirectedMatchingEmpty
    /\ dmCall = <<"new", 0, 0>>
    /\ m_pTargets = NoTargets
    /\ m_controllabilityMeasure = "NODE_MEASURE"
    /\ returned = NoResult
    /\ clone = NoClone

NextM ==
    \/ calls = 0 /\ SbdCalculateMerging
    \/ Controllability
    \/ SetControllabilityMeasure

SpecM == InitM /\ [][NextM]_vars

(***************************************************************************)
(* C27                                                                     *)
(***************************************************************************)

\* Every step of the path is an edge of g.
IsWalk(g, path) ==
    \A k \in DOMAIN WalkSteps(path) :
        getEid(g, WalkSteps(path)[k][1], WalkSteps(path)[k][2]) # {}

\* C27: after calculate() with the merging of closed walks every control
\* path is a walk in the graph, each of its steps an edge, and the control
\* paths together traverse every edge exactly once.
C27_MergedPathsAreWalksCoveringEdgesOnce ==
    AfterSbdCalculate =>
        LET ps == PathsRead(heap, m_controlPaths, TRUE) IN
        /\ \A i \in DOMAIN ps : IsWalk(m_pGraph, ps[i])
        /\ WalksCoverEdgesOnce(m_pGraph, ps)

(***************************************************************************)
(* C28                                                                     *)
(***************************************************************************)

\* C28: after calculate() with the merging of closed walks no two closed
\* walks among the control paths have a vertex in common, no closed walk has
\* a vertex in common with an open walk, and there are as many closed walks
\* as balanced components.
C28_ClosedWalksAreTheBalancedComponents ==
    AfterSbdCalculate =>
        LET ps     == PathsRead(heap, m_controlPaths, TRUE)
            closed == {i \in DOMAIN ps : ps[i].type = "closed walk"}
            open   == {i \in DOMAIN ps : ps[i].type = "open walk"}
        IN /\ \A i \in closed, j \in closed \cup open :
                 i # j => Range(ps[i].nodes) \cap Range(ps[j].nodes) = {}
           /\ Cardinality(closed) = Cardinality(BalancedComponents(m_pGraph))

(***************************************************************************)
(* LiuControllabilityModel::calculate() with a target set                  *)
(***************************************************************************)

\* A std::set read from begin() to end(): its elements in increasing order.
RECURSIVE SortedSeq(_)
SortedSeq(S) == IF S = {} THEN <<>> ELSE <<Min(S)>> \o SortedSeq(S \ {Min(S)})

\* The edges constructBipartiteGraph adds for the targets from the i-th on:
\* one per edge that enters the target, from the position of its source in
\* tmp to the position of the target behind tmp.
RECURSIVE TargetEdges(_, _, _, _)
TargetEdges(g, targets, i, tmp) ==
    IF i > Len(targets) THEN <<>>
    ELSE LET neis == InNeighbors(g, targets[i]) IN
         [k \in DOMAIN neis |-> <<IndexOf(tmp, neis[k]) - 1, Len(tmp) + i - 1>>]
         \o TargetEdges(g, targets, i + 1, tmp)

\* constructBipartiteGraph(pTargets, pMapping) with a target vector: the
\* predecessors of the targets in increasing order, then one vertex per
\* entry of the target vector; mapping maps both back to the graph.
constructBipartiteGraphForTargets(g, targets) ==
    LET predecessorSet ==
            {g.edges[e][1] : e \in {f \in DOMAIN g.edges :
                                        g.edges[f][2] \in Range(targets)}}
        tmp == SortedSeq(predecessorSet)
    IN [n          |-> Len(tmp) + Len(targets),
        edges      |-> TargetEdges(g, targets, 1, tmp),
        mapping    |-> tmp \o targets,
        numTargets |-> Len(targets)]

\* The for loop of calculateTargetedMatching over the target vertices of
\* ctrl from the i-th vertex on: a target the answer leaves unmatched is
\* matched to itself, any other to its partner, which is a target of the
\* next iteration.  st is [result, currentTargets].
RECURSIVE MatchTargets(_, _, _, _)
MatchTargets(ctrl, matching, i, st) ==
    IF i > ctrl.n THEN st
    ELSE IF matching[i] = -1
    THEN MatchTargets(ctrl, matching, i + 1,
             [result         |-> setMatch(st.result, ctrl.mapping[i], ctrl.mapping[i]),
              currentTargets |-> st.currentTargets])
    ELSE MatchTargets(ctrl, matching, i + 1,
             [result         |-> setMatch(st.result, ctrl.mapping[matching[i] + 1],
                                          ctrl.mapping[i]),
              currentTargets |-> Append(st.currentTargets,
                                        ctrl.mapping[matching[i] + 1])])

\* The number of iterations after which the while loop of
\* calculateTargetedMatching is followed no further.
MaxIterations(g) == g.n + 2

\* How the while loop of calculateTargetedMatching can end.  starts holds
\* result as it was at the start of each iteration so far.  An outcome is
\* [matching, starts, broke, running]: result and starts when the loop was
\* left, whether it was left by a break, and whether it was not left at all
\* within MaxIterations(g) iterations.  Each answer the external solver may
\* give is followed.
RECURSIVE TargetedLoop(_, _, _, _)
TargetedLoop(g, currentTargets, result, starts) ==
    IF currentTargets = <<>>
    THEN {[matching |-> result, starts |-> starts, broke |-> FALSE, running |-> FALSE]}
    ELSE IF Len(starts) >= MaxIterations(g)
    THEN {[matching |-> result, starts |-> starts, broke |-> FALSE, running |-> TRUE]}
    ELSE IF \A i \in DOMAIN currentTargets : isMatched(result, currentTargets[i])
    THEN {[matching |-> result, starts |-> Append(starts, result),
           broke |-> TRUE, running |-> FALSE]}
    ELSE Bind(constructBipartiteGraphForTargets(g, currentTargets), LAMBDA ctrl :
            IF ctrl.n = ctrl.numTargets
            THEN {[matching |-> result, starts |-> Append(starts, result),
                   broke |-> TRUE, running |-> FALSE]}
            ELSE UNION {Bind(MatchTargets(ctrl, matching, ctrl.n - ctrl.numTargets + 1,
                                          [result |-> result, currentTargets |-> <<>>]),
                             LAMBDA st :
                                TargetedLoop(g, st.currentTargets, st.result,
                                             Append(starts, result))) :
                        matching \in maximum_bipartite_matching(ctrl)})

\* UnmatchSelfMatched without the loop: the nodes stay matched to themselves.
KeepSelfMatched(result, i, n) == result

\* The loop that unmatches the nodes matched to themselves, from node i on.
RECURSIVE UnmatchSelfMatched(_, _, _)
UnmatchSelfMatched(result, i, n) ==
    IF i >= n THEN result
    ELSE UnmatchSelfMatched(IF matchIn(result, i) = i THEN unmatch(result, i) ELSE result,
                            i + 1, n)

\* The first loop of cleanupTargetedMatching, from node v on: the nodes that
\* are pushed, a node of case (2) as -v-1.
RECURSIVE CleanupQueue(_, _, _, _)
CleanupQueue(matching, targetSet, v, n) ==
    IF v >= n THEN <<>>
    ELSE (IF v \in targetSet THEN <<>>
          ELSE IF isMatched(matching, v)
          THEN (IF ~isMatching(matching, v) THEN <<v>> ELSE <<>>)
          ELSE (IF isMatchingExactlyOne(matching, v) THEN <<-v-1>> ELSE <<>>))
         \o CleanupQueue(matching, targetSet, v + 1, n)

\* The second loop of cleanupTargetedMatching.  undefined: the loop read
\* m_inMapping[-1] for a node that was no longer matched, or the first
\* element of the null pointer matchOut() returns for a node that no longer
\* matches one.
RECURSIVE CleanupLoop(_, _, _)
CleanupLoop(matching, nodeQueue, targetSet) ==
    IF nodeQueue = <<>> THEN [matching |-> matching, undefined |-> FALSE]
    ELSE LET x    == Last(nodeQueue)
             rest == SubSeq(nodeQueue, 1, Len(nodeQueue) - 1)
         IN IF x >= 0
            THEN LET u  == matchIn(matching, x)
                     m1 == unmatch(matching, x)
                 IN IF u = -1 THEN [matching |-> m1, undefined |-> TRUE]
                    ELSE CleanupLoop(m1,
                             IF isMatched(m1, u) /\ u \notin targetSet /\ ~isMatching(m1, u)
                             THEN Append(rest, u) ELSE rest,
                             targetSet)
            ELSE LET v == -x - 1 IN
                 IF ~isMatching(matching, v)
                 THEN [matching |-> matching, undefined |-> TRUE]
                 ELSE LET u  == matchOut(matching, v)[1]
                          m1 == unmatch(matching, u)
                      IN CleanupLoop(m1,
                             IF u \notin targetSet /\ isMatchingExactlyOne(m1, u)
                             THEN Append(rest, -u - 1) ELSE rest,
                             targetSet)

\* cleanupTargetedMatching(matching) of a solver with the targets targets
cleanupTargetedMatching(g, targets, matching) ==
    CleanupLoop(matching, CleanupQueue(matching, Range(targets), 0, g.n), Range(targets))

\* The while (true) loop of calculateControlPaths for the target w: the
\* matching is followed backwards from v.  driver is the driver node that
\* was found, -1 if the walk came back to w.
RECURSIVE FollowBackwards(_, _, _, _)
FollowBackwards(m, w, v, seen) ==
    LET u == matchIn(m, v) IN
    IF u = w THEN [matching |-> m, driver |-> -1]
    ELSE IF u = -1 THEN [matching |-> m, driver |-> v]
    ELSE IF u \in seen THEN [matching |-> unmatch(m, v), driver |-> v]
    ELSE FollowBackwards(m, w, u, seen \cup {u})

\* The loop of calculateControlPaths over the targets from the i-th on: the
\* matching as it leaves it and driverNodeSet.
RECURSIVE TargetDrivers(_, _, _, _)
TargetDrivers(m, targets, i, driverNodeSet) ==
    IF i > Len(targets) THEN [matching |-> m, driverNodeSet |-> driverNodeSet]
    ELSE Bind(FollowBackwards(m, targets[i], targets[i], {targets[i]}), LAMBDA r :
            TargetDrivers(r.matching, targets, i + 1,
                          driverNodeSet \cup (IF r.driver = -1 THEN {} ELSE {r.driver})))

\* calculateControlPaths() of a solver with the targets targets: the driver
\* nodes are found from the targets, the rest is as without targets.
calculateControlPathsForTargets(g, m, targets, h, paths) ==
    Bind(TargetDrivers(m, targets, 1, {}), LAMBDA td :
        LET drivers == SortedSeq(td.driverNodeSet)
            cleared == clearControlPaths(h, paths)
            st0     == [heap |-> cleared.heap, paths |-> cleared.paths,
                        vts |-> [v \in Vertices(g) |-> NULL], used |-> {}]
        IN Bind(BudsFrom(g, td.matching, 0, StemsFrom(td.matching, drivers, 1, st0)),
                LAMBDA st2 :
                   [drivers  |-> IF drivers = <<>> THEN <<0>> ELSE drivers,
                    matching |-> td.matching,
                    heap     |-> st2.heap,
                    paths    |-> st2.paths]))

\* The while loop of calculateTargetedMatching(pTargets) on the graph g
TargetedOutcomes(g, targets) ==
    TargetedLoop(g, targets, DirectedMatchingN(g.n), <<>>)

\* LiuControllabilityModel::calculate() on a graph, with a target set.
\* m_matching is assigned when calculateTargetedMatching returns.
LiuCalculateTargeted ==
    /\ kind = "liu" /\ CanCall /\ m_pGraph # NoGraph /\ m_pTargets # NoTargets
    /\ calls' = calls + 1
    /\ returned' = NoResult
    /\ \E out \in TargetedOutcomes(m_pGraph, m_pTargets) :
       \E cleaned \in {cleanupTargetedMatching(m_pGraph, m_pTargets,
                            UnmatchSelfMatched(out.matching, 0, m_pGraph.n))} :
          IF out.running
          THEN /\ lastOp' = Op("calculate", "running")
               /\ UNCHANGED <<m_matching, m_driverNodes, m_controlPaths, heap>>
          ELSE IF cleaned.undefined
          THEN /\ lastOp' = Op("calculate", "crash")
               /\ UNCHANGED <<m_matching, m_driverNodes, m_controlPaths, heap>>
          ELSE \E r \in {calculateControlPathsForTargets(m_pGraph, cleaned.matching,
                                                          m_pTargets, heap, m_controlPaths)} :
               /\ m_matching' = r.matching
               /\ m_driverNodes' = r.drivers
               /\ \/ /\ m_controlPaths' = r.paths
                     /\ heap' = r.heap
                     /\ lastOp' = Op("calculate", "ok")
                  \/ /\ DeletesTwice(heap, m_controlPaths)
                     /\ lastOp' = Op("calculate", "crash")
                     /\ UNCHANGED <<m_controlPaths, heap>>
    /\ UNCHANGED <<kind, m_pGraph, extMatching, dm, dmCall>>
    /\ UNCHANGED settingVars

\* The longest target vector a solver is constructed with.
MaxTargets == 2

\* The target vectors for the graph g: vectors of distinct vertices.
TargetVectors(g) ==
    {t \in SeqsUpTo(Vertices(g), MaxTargets) : Cardinality(Range(t)) = Len(t)}

\* A Liu solver constructed on a graph with a target vector.  The solver
\* is not asked for a matching of the whole graph: one answer stands for all.
InitL ==
    /\ kind = "liu"
    /\ m_pGraph \in Graphs
    /\ extMatching = CHOOSE answer \in ExternalAnswers(kind, m_pGraph) : TRUE
    /\ m_driverNodes = <<>>
    /\ m_matching = DirectedMatchingEmpty
    /\ m_controlPaths = <<>>
    /\ heap = <<>>
    /\ calls = 0
    /\ lastOp = Op("new", "ok")
    /\ dm = DirectedMatchingEmpty
    /\ dmCall = <<"new", 0, 0>>
    /\ m_pTargets \in TargetVectors(m_pGraph)
    /\ m_controllabilityMeasure = "NODE_MEASURE"
    /\ returned = NoResult
    /\ clone = NoClone

NextL ==
    \/ calls = 0 /\ LiuCalculateTargeted
    \/ LiuEdgeClasses

SpecL == InitL /\ [][NextL]_vars

AfterTargetedCalculate ==
    /\ kind = "liu" /\ m_pGraph # NoGraph /\ m_pTargets # NoTargets
    /\ lastOp.op = "calculate"

\* result after the k-th iteration of the loop with the outcome out
AfterIteration(out, k) ==
    IF k < Len(out.starts) THEN out.starts[k + 1] ELSE out.matching

\* C30: the while loop of calculateTargetedMatching terminates whatever the
\* external solver answers; every iteration that does not leave the loop
\* by a break matches a vertex that was unmatched before it, so there are
\* at most n + 1 iterations; and after the loop that follows, no vertex is
\* matched to itself: every vertex that was is unmatched.
C30_TargetedLoopTerminates ==
    AfterTargetedCalculate =>
        /\ lastOp.result # "running"
        /\ \A out \in TargetedOutcomes(m_pGraph, m_pTargets) :
              /\ ~out.running
              /\ Len(out.starts) <= m_pGraph.n + 1
              /\ \A k \in DOMAIN out.starts :
                    (k < Len(out.starts) \/ ~out.broke) =>
                        \E v \in Vertices(m_pGraph) :
                            /\ ~isMatched(out.starts[k], v)
                            /\ isMatched(AfterIteration(out, k), v)
              /\ \A v \in Vertices(m_pGraph) :
                    LET result == UnmatchSelfMatched(out.matching, 0, m_pGraph.n) IN
                    /\ matchIn(result, v) # v
                    /\ matchIn(out.matching, v) = v => ~isMatched(result, v)

\* A calculation with targets whose loop ran at least twice and left a
\* vertex without a loop edge matched to itself.
C30_Witness ==
    /\ AfterTargetedCalculate
    /\ m_pTargets # <<>>
    /\ lastOp.result = "ok"
    /\ \E out \in TargetedOutcomes(m_pGraph, m_pTargets) :
          /\ Len(out.starts) >= 2
          /\ \E v \in Vertices(m_pGraph) :
                /\ matchIn(out.matching, v) = v
                /\ <<v, v>> \notin Range(m_pGraph.edges)

====
